---- MODULE Spec2Model ----
(***************************************************************************)
(* Conversation chaining and stream consumption of the two Responses-API   *)
(* demos: PDFSearchAssistant (src/demo_1_pdf_search.py) and                 *)
(* InvestmentAdvisor (src/demo_2_investment_advisor.py).                    *)
(*                                                                         *)
(* The program is single-threaded: one call runs to its return or raise    *)
(* before the next one starts, so one program counter `pc` serves both     *)
(* objects.  A streamed call is modelled event by event: the remote        *)
(* service is the environment and may yield any event, end the stream, or  *)
(* make the iteration raise, at every step.  Text is a sequence of         *)
(* characters, a delta is such a sequence, and ''.join is concatenation.   *)
(* Of the print statements only those that report stream events (the       *)
(* observer's view) are kept, in `printed`.                                *)
(***************************************************************************)
EXTENDS Naturals, Sequences, FiniteSets

\* ---------------------------------------------------------------- bounds

\* Requests the service answers in one behaviour (each gets a fresh id).
MaxRequests == 3
\* Calls made on the tool registry in one behaviour.
MaxToolCalls == 4
\* Runs of the orchestration loop in one behaviour.
MaxRuns == 1
\* Mail and calendar operations called in one behaviour.
MaxOps == 3
\* Messages or events a remote list call returns.
MaxItems == 2
\* Events one stream yields before it must end or raise.
MaxEvents == 2
\* The same where one turn is looked at alone.
MaxStreamEvents == 4

\* ------------------------------------------------------------- constants

\* Python's None; response ids are the positive numbers.
None == 0

\* The id the service gives the vector store.
VectorStoreId == 1

Clients == {"pdf", "adv"}

Queries == {"q"}

\* The chunks of text a stream delivers.
Deltas == { <<"a">>, <<"b", "c">> }

\* The progress notice of _stream_response.
RunningAnalysis == << "[Running analysis...]" >>

\* Event types of the Responses API that the two loops can meet.
TextDelta == "response.output_text.delta"
ItemAdded == "response.output_item.added"
Completed == "response.completed"
CallCodeDelta == "response.code_interpreter_call_code.delta"
ItemDone == "response.output_item.done"
Failed == "response.failed"

NoEvent == [type |-> "none", delta |-> <<>>, item |-> "none", id |-> None]

DeltaEvent(d) == [NoEvent EXCEPT !.type = TextDelta, !.delta = d]

AddedEvent(t) == [NoEvent EXCEPT !.type = ItemAdded, !.item = t]

CompletedEvent(i) == [NoEvent EXCEPT !.type = Completed, !.id = i]

OtherEvent(t) == [NoEvent EXCEPT !.type = t]

\* A chunk of the arguments (the code) of a code-interpreter call.
ArgumentsEvent == [NoEvent EXCEPT !.type = CallCodeDelta, !.delta = <<"x">>]

\* What the service may yield next on the stream of the response with id i.
StreamEvents(i) ==
    { DeltaEvent(d) : d \in Deltas }
        \cup { AddedEvent(t) : t \in {"code_interpreter_call", "message"} }
        \cup { CompletedEvent(i) }
        \cup { ArgumentsEvent }
        \cup { OtherEvent(t) : t \in {ItemDone, Failed} }

\* The events that decide how turns chain: some text, the completion, and
\* an event neither loop knows.
ChainEvents(i) ==
    { DeltaEvent(<<"a">>), CompletedEvent(i), OtherEvent(Failed) }

\* The events a stream is drawn from.
Yield(kinds, i) == IF kinds = "chain" THEN ChainEvents(i) ELSE StreamEvents(i)

\* The texts a non-streamed response can carry.
Texts == { <<"a">>, <<"a", "b", "c">> }

\* ''.join(full_text)
RECURSIVE Join(_)
Join(chunks) ==
    IF chunks = <<>> THEN <<>> ELSE Head(chunks) \o Join(Tail(chunks))

VARIABLES
    vector_store_id,        \* PDFSearchAssistant.vector_store_id
    conversation_history,   \* PDFSearchAssistant.conversation_history
    conversation_id,        \* InvestmentAdvisor.conversation_id
    pc,                     \* "idle", or the loop the thread is in
    full_text,              \* local of the streaming call in flight
    current_response_id,    \* local of search_streaming
    query,                  \* argument of the call in flight
    printed,                \* what the last call reported of its events
    events,                 \* events the last call consumed, in order
    requests,               \* every responses.create call, in order
    nextId,                 \* the id the service gives the next response
    outcome,                \* how the last call ended
    turns,                  \* per client: the turns finished since the
                            \* conversation started (or was reset)
    wasReset,               \* reset_conversation ran and no request since
    registry,               \* ToolRegistry: the registered tools, in order
    executed,               \* names of the tools whose handler has run
    toolOutcome,            \* how the last call on the registry ended
    toolCalls,              \* calls made on the registry
    runState,               \* OrchestrationLoop: state of the run call
    rounds,                 \* local-tool continuation rounds of the run
    runError,               \* the error the run failed with, or "none"
    pendingCall,            \* the tool the service is waiting for
    callId,                 \* the id the service gave that call
    fedBack,                \* tool outputs the run sent back to the
                            \* service, each under a call id
    runs,                   \* run calls started
    lastFault,              \* the fault inside the last handler call
    outcome2,               \* how the last call of a second thread ended
    midFlight,              \* ids of the requests sent while another call
                            \* on the same object was inside its loop
    opName,                 \* the last mail or calendar operation called
    opOutcome,              \* how it ended
    opLog,                  \* the remote calls it made, with their replies
    opsDone,                \* mail and calendar operations called
    calendar,               \* the events the calendar service stores
    updateArgs,             \* the arguments of the last update_event call
    apiCalls,               \* the events calls it made, with their parameters
    cls_instance,           \* GoogleServices._instance
    objects,                \* the GoogleServices objects created so far
    newPc,                  \* per thread: where it is in __new__
    self,                   \* per thread: the object it initializes
    constructed,            \* per thread: how its GoogleServices() calls ended
    initRuns,               \* runs of _initialize started
    token,                  \* the file token.json
    bak,                    \* the file token.json.bak
    written,                \* credentials written to token.json so far
    called,                 \* the methods of PDFSearchAssistant called
    files                   \* the files uploaded to the service

\* The state of the two assistants.
assistantVars ==
    << vector_store_id, conversation_history, conversation_id, pc,
       full_text, current_response_id, query, printed, events,
       requests, nextId, outcome, turns, wasReset >>

\* The state of the tool registry.
registryVars == << registry, executed, toolOutcome, toolCalls >>

\* The state of the orchestration loop.
loopVars ==
    << runState, rounds, runError, pendingCall, callId, fedBack, runs,
       lastFault >>

\* What a second thread that calls into the assistants adds.
threadVars == << outcome2, midFlight >>

\* The caller's view of the mail and calendar tools.
mailVars == << opName, opOutcome, opLog, opsDone >>

\* The calendar as update_event sees and changes it.
calendarVars == << calendar, updateArgs, apiCalls >>

\* The GoogleServices class and the threads that construct it.
servicesVars ==
    << cls_instance, objects, newPc, self, constructed, initRuns >>

\* The token files of get_calendar_service.
tokenVars == << token, bak, written >>

\* The calls of the methods of PDFSearchAssistant and the uploaded files.
uploadVars == << called, files >>

\* The state of the tools outside the assistants' conversations.
restVars == << calendarVars, servicesVars, tokenVars, uploadVars >>

vars ==
    << assistantVars, registryVars, loopVars, threadVars, mailVars,
       restVars >>

\* -------------------------------------------------------------- helpers

Last(s) == s[Len(s)]

\* How a search or suggestion call ends: it returns a value or raises.
NoOutcome == [kind |-> "none", value |-> <<>>, error |-> "none"]

Return(v) == [kind |-> "return", value |-> v, error |-> "none"]

Raise(e) == [kind |-> "raise", value |-> <<>>, error |-> e]

\* A finished turn of conversation c, as an onlooker would log it: the id
\* the service gave the response; how the turn ended ("ok": the call
\* returned and the service reported completion; "no_completion": the
\* stream ended without a completion event; "stream_raised": iterating the
\* stream raised; "create_raised": the request itself raised; "no_text":
\* the response carried no text); and the id the service reported
\* completed to the call (None if it reported none).
Turn(c, how, i, reported) ==
    [turns EXCEPT ![c] = Append(@, [end |-> how, id |-> i,
                                    reported |-> reported])]

\* The turn ended in a stream error: the stream raised or ended, and no
\* completion event came before that.
StreamError(t) ==
    t.end \in {"no_completion", "stream_raised"} /\ t.reported = None

\* The id of the last successful turn of a conversation, None if none.
RECURSIVE LastOkId(_)
LastOkId(ts) ==
    IF ts = <<>> THEN None
    ELSE IF Last(ts).end = "ok" THEN Last(ts).id
    ELSE LastOkId(SubSeq(ts, 1, Len(ts) - 1))

\* The id the service last reported completed to a call of a conversation,
\* None if it reported none.
RECURSIVE LastReportedId(_)
LastReportedId(ts) ==
    IF ts = <<>> THEN None
    ELSE IF Last(ts).reported # None THEN Last(ts).reported
    ELSE LastReportedId(SubSeq(ts, 1, Len(ts) - 1))

\* search / search_streaming: "Get the previous response ID if we have
\* conversation history".
PreviousResponseId(history) ==
    IF history # <<>> THEN Last(history)["response_id"] ELSE None

\* client.responses.create(...): the request as the service sees it, with
\* the id the service gives the response and what the conversation's
\* finished turns say the chain should be.
Request(c, q, prev, streamed) ==
    [client |-> c, input |-> q, previous_response_id |-> prev,
     stream |-> streamed, id |-> nextId,
     last_ok |-> LastOkId(turns[c]),
     last_reported |-> LastReportedId(turns[c]),
     after_stream_error |-> turns[c] # <<>> /\ StreamError(Last(turns[c])),
     after_reset |-> c = "adv" /\ wasReset]

\* The call sends a request: the service numbers the response.
Send(c, q, prev, streamed) ==
    /\ requests' = Append(requests, Request(c, q, prev, streamed))
    /\ nextId' = nextId + 1
    /\ wasReset' = IF c = "adv" THEN FALSE ELSE wasReset

\* The request of the call that is inside its loop: the last one that was
\* not sent by a second thread.
RECURSIVE LastOwn(_)
LastOwn(rs) ==
    IF Last(rs).id \notin midFlight THEN Last(rs)
    ELSE LastOwn(SubSeq(rs, 1, Len(rs) - 1))

InFlight == LastOwn(requests)

\* The locals of a call that is not inside a stream loop.
NoStream ==
    /\ pc' = "idle"
    /\ full_text' = <<>>
    /\ current_response_id' = None

\* A call starts: nothing consumed or reported yet.
Begin(q) ==
    /\ query' = q
    /\ printed' = <<>>
    /\ events' = <<>>

\* How a call on the registry ends: the operation, the tool named, and
\* the error it failed with ("none" if it did not fail).
NoToolOutcome == [op |-> "none", name |-> "none", error |-> "none"]

ToolOutcome(op, name, error) == [op |-> op, name |-> name, error |-> error]

\* The calendars and the events update_event is called on.
CalendarIds == {"primary", "work"}

EventIds == {"e1"}

\* An event as the calendar service stores it.
StoredEvent(cal, id) ==
    [id |-> id,
     summary |-> IF cal = "primary" THEN "standup" ELSE "review",
     location |-> "room",
     description |-> "weekly",
     start |-> [dateTime |-> "t1", timeZone |-> "UTC"],
     end |-> [dateTime |-> "t2", timeZone |-> "UTC"],
     attendees |-> << [email |-> "old@x"] >>]

\* An optional argument: <<>> when it is omitted (None), << v >> when the
\* value v is given.
Omitted == <<>>

\* update_event called with its event id alone.
NoArguments ==
    [calendar_id |-> "primary", event_id |-> "e1", summary |-> Omitted,
     location |-> Omitted, description |-> Omitted, start_time |-> Omitted,
     end_time |-> Omitted, attendees |-> Omitted]

\* The threads that construct GoogleServices.
Threads == {1, 2}

\* No such file.
NoFile ==
    [exists |-> FALSE, scopes |-> {}, state |-> "none", serial |-> 0,
     by |-> "none"]

\* ----------------------------------------------------------------- Init

Init ==
    /\ vector_store_id = None
    /\ conversation_history = <<>>
    /\ conversation_id = None
    /\ pc = "idle"
    /\ full_text = <<>>
    /\ current_response_id = None
    /\ query = "q"
    /\ printed = <<>>
    /\ events = <<>>
    /\ requests = <<>>
    /\ nextId = 1
    /\ outcome = NoOutcome
    /\ turns = [c \in Clients |-> <<>>]
    /\ wasReset = FALSE
    /\ registry = <<>>
    /\ executed = <<>>
    /\ toolOutcome = NoToolOutcome
    /\ toolCalls = 0
    /\ runState = "IDLE"
    /\ rounds = 0
    /\ runError = "none"
    /\ pendingCall = "none"
    /\ callId = "none"
    /\ fedBack = <<>>
    /\ runs = 0
    /\ lastFault = "none"
    /\ outcome2 = NoOutcome
    /\ midFlight = {}
    /\ opName = "none"
    /\ opOutcome = NoOutcome
    /\ opLog = <<>>
    /\ opsDone = 0
    /\ calendar = [k \in CalendarIds \X EventIds |-> StoredEvent(k[1], k[2])]
    /\ updateArgs = NoArguments
    /\ apiCalls = <<>>
    /\ cls_instance = None
    /\ objects = <<>>
    /\ newPc = [t \in Threads |-> "idle"]
    /\ self = [t \in Threads |-> None]
    /\ constructed = [t \in Threads |-> <<>>]
    /\ initRuns = 0
    /\ token = NoFile
    /\ bak = NoFile
    /\ written = 0
    /\ called = <<>>
    /\ files = <<>>

\* ------------------------------------------------- the service's replies

\* What a non-streamed responses.create can do for the response with id i:
\* raise (a transport or API fault), or return a response whose last
\* output item carries a text, or one where it carries none (the output
\* is empty or ends in an item without content).
Replies(i) ==
    { [raises |-> TRUE, id |-> i, has_text |-> FALSE, text |-> <<>>] }
        \cup { [raises |-> FALSE, id |-> i, has_text |-> FALSE, text |-> <<>>] }
        \cup { [raises |-> FALSE, id |-> i, has_text |-> TRUE, text |-> t] :
                    t \in Texts }

\* The service reported the response completed on the stream.
HasCompleted(evs) == \E k \in 1..Len(evs) : evs[k].type = Completed

\* The id of the last completion event of a stream, None if it has none.
RECURSIVE CompletedId(_)
CompletedId(evs) ==
    IF evs = <<>> THEN None
    ELSE IF Last(evs).type = Completed THEN Last(evs).id
    ELSE CompletedId(SubSeq(evs, 1, Len(evs) - 1))

\* How a stream that ran to its end ended.
StreamEnd(evs) == IF HasCompleted(evs) THEN "ok" ELSE "no_completion"

\* What _stream_response keeps of the tool calls of its stream: the loop
\* has no variable for them and the call returns the joined text alone.
ToolCallRecords == <<>>

\* A history entry, as search and search_streaming build it.
Entry(q, text, i) == [query |-> q, response |-> text, response_id |-> i]

\* --------------------------------------------------- PDFSearchAssistant

\* create_vector_store
CreateVectorStore ==
    /\ vector_store_id' = VectorStoreId
    /\ UNCHANGED << conversation_history, conversation_id, pc, full_text,
                    current_response_id, query, printed, events, requests,
                    nextId, outcome, turns, wasReset >>

\* search and search_streaming without a vector store: ValueError, before
\* anything else.
NoVectorStore(q) ==
    /\ vector_store_id = None
    /\ Begin(q)
    /\ outcome' = Raise("ValueError")
    /\ UNCHANGED << vector_store_id, conversation_history, conversation_id,
                    pc, full_text, current_response_id, requests, nextId,
                    turns, wasReset >>

\* search: one non-streamed turn, from the request to the return.
Search(q, reply) ==
    /\ vector_store_id # None
    /\ Begin(q)
    /\ Send("pdf", q, PreviousResponseId(conversation_history), FALSE)
    /\ IF reply.raises
          THEN /\ outcome' = Raise("APIError")
               /\ turns' = Turn("pdf", "create_raised", reply.id, None)
               /\ UNCHANGED conversation_history
          ELSE IF ~reply.has_text
          THEN \* response.output[-1].content[0].text raises
               /\ outcome' = Raise("IndexError")
               /\ turns' = Turn("pdf", "no_text", reply.id, reply.id)
               /\ UNCHANGED conversation_history
          ELSE /\ conversation_history' =
                    Append(conversation_history, Entry(q, reply.text, reply.id))
               /\ outcome' = Return(reply.text)
               /\ turns' = Turn("pdf", "ok", reply.id, reply.id)
    /\ UNCHANGED << vector_store_id, conversation_id, pc, full_text,
                    current_response_id >>

\* search_streaming up to the loop: the request is sent; creating the
\* stream may raise.
SearchStreaming(q, raises) ==
    /\ vector_store_id # None
    /\ Begin(q)
    /\ Send("pdf", q, PreviousResponseId(conversation_history), TRUE)
    /\ full_text' = <<>>
    /\ current_response_id' = None
    /\ IF raises
          THEN /\ pc' = "idle"
               /\ outcome' = Raise("APIError")
               /\ turns' = Turn("pdf", "create_raised", nextId, None)
          ELSE /\ pc' = "search_streaming"
               /\ outcome' = NoOutcome
               /\ UNCHANGED turns
    /\ UNCHANGED << vector_store_id, conversation_history, conversation_id >>

\* The loop of search_streaming taking every event with a delta for text.
SearchStreamingEventAnyDelta(event) ==
    /\ events' = Append(events, event)
    /\ IF event.delta # <<>>
          THEN /\ printed' = Append(printed, event.delta)
               /\ full_text' = Append(full_text, event.delta)
               /\ UNCHANGED current_response_id
          ELSE IF event.type = Completed
          THEN /\ current_response_id' = event.id
               /\ UNCHANGED << printed, full_text >>
          ELSE UNCHANGED << printed, full_text, current_response_id >>
    /\ UNCHANGED << vector_store_id, conversation_history, conversation_id,
                    pc, query, requests, nextId, outcome, turns, wasReset >>

\* One iteration of the loop of search_streaming.
SearchStreamingEvent(event) ==
    /\ events' = Append(events, event)
    /\ IF event.type = TextDelta
          THEN /\ printed' = Append(printed, event.delta)
               /\ full_text' = Append(full_text, event.delta)
               /\ UNCHANGED current_response_id
          ELSE IF event.type = Completed
          THEN /\ current_response_id' = event.id
               /\ UNCHANGED << printed, full_text >>
          ELSE UNCHANGED << printed, full_text, current_response_id >>
    /\ UNCHANGED << vector_store_id, conversation_history, conversation_id,
                    pc, query, requests, nextId, outcome, turns, wasReset >>

\* search_streaming with the save to the history forgotten.
SearchStreamingEndNoSave ==
    /\ outcome' = Return(<<>>)
    /\ turns' = Turn("pdf", StreamEnd(events), InFlight.id,
                      CompletedId(events))
    /\ NoStream
    /\ UNCHANGED << vector_store_id, conversation_history, conversation_id,
                    query, printed, events, requests, nextId, wasReset >>

\* The stream of search_streaming ends: the turn is saved to the history.
SearchStreamingEnd ==
    /\ conversation_history' =
            Append(conversation_history,
                   Entry(query, Join(full_text), current_response_id))
    /\ outcome' = Return(<<>>)
    /\ turns' = Turn("pdf", StreamEnd(events), InFlight.id,
                      CompletedId(events))
    /\ NoStream
    /\ UNCHANGED << vector_store_id, conversation_id, query, printed,
                    events, requests, nextId, wasReset >>

\* The iteration of the stream raises: search_streaming propagates it.
SearchStreamingRaise ==
    /\ outcome' = Raise("APIError")
    /\ turns' = Turn("pdf", "stream_raised", InFlight.id,
                      CompletedId(events))
    /\ NoStream
    /\ UNCHANGED << vector_store_id, conversation_history, conversation_id,
                    query, printed, events, requests, nextId, wasReset >>

\* The call is cancelled while it waits for the next event (Ctrl-C: a
\* KeyboardInterrupt is raised in the loop): search_streaming has no
\* handler, the exception leaves the call.
SearchStreamingCancel ==
    /\ outcome' = Raise("KeyboardInterrupt")
    /\ turns' = Turn("pdf", "cancelled", InFlight.id, CompletedId(events))
    /\ NoStream
    /\ UNCHANGED << vector_store_id, conversation_history, conversation_id,
                    query, printed, events, requests, nextId, wasReset >>

\* ---------------------------------------------------- InvestmentAdvisor

\* get_investment_suggestion(stream=True) up to the loop of
\* _stream_response: the request is sent; creating the stream may raise.
StreamResponse(q, raises) ==
    /\ Begin(q)
    /\ Send("adv", q, conversation_id, TRUE)
    /\ full_text' = <<>>
    /\ IF raises
          THEN /\ pc' = "idle"
               /\ outcome' = Raise("APIError")
               /\ turns' = Turn("adv", "create_raised", nextId, None)
          ELSE /\ pc' = "_stream_response"
               /\ outcome' = NoOutcome
               /\ UNCHANGED turns
    /\ UNCHANGED << vector_store_id, conversation_history, conversation_id,
                    current_response_id >>

\* The loop of _stream_response printing the text so far at each delta.
StreamResponseEventPrintsBuffer(event) ==
    /\ events' = Append(events, event)
    /\ IF event.type = TextDelta
          THEN /\ printed' = Append(printed, Join(Append(full_text, event.delta)))
               /\ full_text' = Append(full_text, event.delta)
               /\ UNCHANGED conversation_id
          ELSE IF event.type = ItemAdded
          THEN /\ printed' = IF event.item = "code_interpreter_call"
                                THEN Append(printed, RunningAnalysis)
                                ELSE printed
               /\ UNCHANGED << full_text, conversation_id >>
          ELSE IF event.type = Completed
          THEN /\ conversation_id' = event.id
               /\ UNCHANGED << printed, full_text >>
          ELSE UNCHANGED << printed, full_text, conversation_id >>
    /\ UNCHANGED << vector_store_id, conversation_history, pc,
                    current_response_id, query, requests, nextId, outcome,
                    turns, wasReset >>

\* The loop of _stream_response announcing an analysis for every output
\* item, whatever its type.
StreamResponseEventAnyItem(event) ==
    /\ events' = Append(events, event)
    /\ IF event.type = TextDelta
          THEN /\ printed' = Append(printed, event.delta)
               /\ full_text' = Append(full_text, event.delta)
               /\ UNCHANGED conversation_id
          ELSE IF event.type = ItemAdded
          THEN /\ printed' = Append(printed, RunningAnalysis)
               /\ UNCHANGED << full_text, conversation_id >>
          ELSE IF event.type = Completed
          THEN /\ conversation_id' = event.id
               /\ UNCHANGED << printed, full_text >>
          ELSE UNCHANGED << printed, full_text, conversation_id >>
    /\ UNCHANGED << vector_store_id, conversation_history, pc,
                    current_response_id, query, requests, nextId, outcome,
                    turns, wasReset >>

\* The loop of _stream_response storing the id of the response at its
\* first text, before the service reports the response as completed.
StreamResponseEventStoresEarly(event) ==
    /\ events' = Append(events, event)
    /\ IF event.type = TextDelta
          THEN /\ printed' = Append(printed, event.delta)
               /\ full_text' = Append(full_text, event.delta)
               /\ conversation_id' = InFlight.id
          ELSE IF event.type = ItemAdded
          THEN /\ printed' = IF event.item = "code_interpreter_call"
                                THEN Append(printed, RunningAnalysis)
                                ELSE printed
               /\ UNCHANGED << full_text, conversation_id >>
          ELSE IF event.type = Completed
          THEN /\ conversation_id' = event.id
               /\ UNCHANGED << printed, full_text >>
          ELSE UNCHANGED << printed, full_text, conversation_id >>
    /\ UNCHANGED << vector_store_id, conversation_history, pc,
                    current_response_id, query, requests, nextId, outcome,
                    turns, wasReset >>

\* One iteration of the loop of _stream_response.
StreamResponseEvent(event) ==
    /\ events' = Append(events, event)
    /\ IF event.type = TextDelta
          THEN /\ printed' = Append(printed, event.delta)
               /\ full_text' = Append(full_text, event.delta)
               /\ UNCHANGED conversation_id
          ELSE IF event.type = ItemAdded
          THEN /\ printed' = IF event.item = "code_interpreter_call"
                                THEN Append(printed, RunningAnalysis)
                                ELSE printed
               /\ UNCHANGED << full_text, conversation_id >>
          ELSE IF event.type = Completed
          THEN /\ conversation_id' = event.id
               /\ UNCHANGED << printed, full_text >>
          ELSE UNCHANGED << printed, full_text, conversation_id >>
    /\ UNCHANGED << vector_store_id, conversation_history, pc,
                    current_response_id, query, requests, nextId, outcome,
                    turns, wasReset >>

\* _stream_response ending like search_streaming, without a return value.
StreamResponseEndReturnsNothing ==
    /\ outcome' = Return(<<>>)
    /\ turns' = Turn("adv", StreamEnd(events), InFlight.id,
                      CompletedId(events))
    /\ NoStream
    /\ UNCHANGED << vector_store_id, conversation_history, conversation_id,
                    query, printed, events, requests, nextId, wasReset >>

\* The stream of _stream_response ends: the joined text is returned.
StreamResponseEnd ==
    /\ outcome' = Return(Join(full_text))
    /\ turns' = Turn("adv", StreamEnd(events), InFlight.id,
                      CompletedId(events))
    /\ NoStream
    /\ UNCHANGED << vector_store_id, conversation_history, conversation_id,
                    query, printed, events, requests, nextId, wasReset >>

\* _stream_response catching the error of the stream inside the loop and
\* going on with the next event.
StreamResponseRaiseGoesOn ==
    /\ outcome' = Raise("APIError")
    /\ turns' = Turn("adv", "stream_raised", InFlight.id,
                      CompletedId(events))
    /\ UNCHANGED << vector_store_id, conversation_history, conversation_id,
                    pc, full_text, current_response_id, query, printed,
                    events, requests, nextId, wasReset >>

\* The iteration of the stream raises: _stream_response propagates it.
StreamResponseRaise ==
    /\ outcome' = Raise("APIError")
    /\ turns' = Turn("adv", "stream_raised", InFlight.id,
                      CompletedId(events))
    /\ NoStream
    /\ UNCHANGED << vector_store_id, conversation_history, conversation_id,
                    query, printed, events, requests, nextId, wasReset >>

\* The call is cancelled while it waits for the next event: the exception
\* leaves _stream_response, which has no handler.
StreamResponseCancel ==
    /\ outcome' = Raise("KeyboardInterrupt")
    /\ turns' = Turn("adv", "cancelled", InFlight.id, CompletedId(events))
    /\ NoStream
    /\ UNCHANGED << vector_store_id, conversation_history, conversation_id,
                    query, printed, events, requests, nextId, wasReset >>

\* _sync_response writing its turn to a transcript shared with the other
\* session.
SyncResponseSharedHistory(q, reply) ==
    /\ Begin(q)
    /\ Send("adv", q, conversation_id, FALSE)
    /\ IF reply.raises
          THEN /\ outcome' = Raise("APIError")
               /\ turns' = Turn("adv", "create_raised", reply.id, None)
               /\ UNCHANGED << conversation_id, conversation_history >>
          ELSE /\ conversation_id' = reply.id
               /\ IF reply.has_text
                     THEN /\ outcome' = Return(reply.text)
                          /\ turns' = Turn("adv", "ok", reply.id, reply.id)
                          /\ conversation_history' =
                                Append(conversation_history,
                                       Entry(q, reply.text, reply.id))
                     ELSE /\ outcome' = Raise("IndexError")
                          /\ turns' = Turn("adv", "no_text", reply.id, reply.id)
                          /\ UNCHANGED conversation_history
    /\ UNCHANGED << vector_store_id, pc, full_text, current_response_id >>

\* get_investment_suggestion(stream=False): _sync_response, from the
\* request to the return.
SyncResponse(q, reply) ==
    /\ Begin(q)
    /\ Send("adv", q, conversation_id, FALSE)
    /\ IF reply.raises
          THEN /\ outcome' = Raise("APIError")
               /\ turns' = Turn("adv", "create_raised", reply.id, None)
               /\ UNCHANGED conversation_id
          ELSE /\ conversation_id' = reply.id
               /\ IF reply.has_text
                     THEN /\ outcome' = Return(reply.text)
                          /\ turns' = Turn("adv", "ok", reply.id, reply.id)
                     ELSE \* response.output[-1].content[0].text raises
                          /\ outcome' = Raise("IndexError")
                          /\ turns' = Turn("adv", "no_text", reply.id, reply.id)
    /\ UNCHANGED << vector_store_id, conversation_history, pc, full_text,
                    current_response_id >>

\* reset_conversation that only prints.
ResetConversationKeepsId ==
    /\ turns' = [turns EXCEPT !["adv"] = <<>>]
    /\ wasReset' = TRUE
    /\ UNCHANGED << vector_store_id, conversation_history, conversation_id,
                    pc, full_text, current_response_id, query, printed,
                    events, requests, nextId, outcome >>

\* reset_conversation
ResetConversation ==
    /\ conversation_id' = None
    /\ turns' = [turns EXCEPT !["adv"] = <<>>]
    /\ wasReset' = TRUE
    /\ UNCHANGED << vector_store_id, conversation_history, pc, full_text,
                    current_response_id, query, printed, events, requests,
                    nextId, outcome >>

\* -------------------------------------------------------- a second thread

\* search, called by a second thread while search_streaming is inside its
\* loop: nothing refuses the call, it runs from the request to the return.
SecondSearch(q, reply) ==
    /\ Send("pdf", q, PreviousResponseId(conversation_history), FALSE)
    /\ midFlight' = midFlight \cup {nextId}
    /\ IF reply.raises
          THEN /\ outcome2' = Raise("APIError")
               /\ turns' = Turn("pdf", "create_raised", reply.id, None)
               /\ UNCHANGED conversation_history
          ELSE IF ~reply.has_text
          THEN /\ outcome2' = Raise("IndexError")
               /\ turns' = Turn("pdf", "no_text", reply.id, reply.id)
               /\ UNCHANGED conversation_history
          ELSE /\ conversation_history' =
                    Append(conversation_history, Entry(q, reply.text, reply.id))
               /\ outcome2' = Return(reply.text)
               /\ turns' = Turn("pdf", "ok", reply.id, reply.id)
    /\ UNCHANGED << vector_store_id, conversation_id, pc, full_text,
                    current_response_id, query, printed, events, outcome >>

\* _sync_response, called by a second thread while _stream_response is
\* inside its loop.
SecondSyncResponse(q, reply) ==
    /\ Send("adv", q, conversation_id, FALSE)
    /\ midFlight' = midFlight \cup {nextId}
    /\ IF reply.raises
          THEN /\ outcome2' = Raise("APIError")
               /\ turns' = Turn("adv", "create_raised", reply.id, None)
               /\ UNCHANGED conversation_id
          ELSE /\ conversation_id' = reply.id
               /\ IF reply.has_text
                     THEN /\ outcome2' = Return(reply.text)
                          /\ turns' = Turn("adv", "ok", reply.id, reply.id)
                     ELSE /\ outcome2' = Raise("IndexError")
                          /\ turns' = Turn("adv", "no_text", reply.id, reply.id)
    /\ UNCHANGED << vector_store_id, conversation_history, pc, full_text,
                    current_response_id, query, printed, events, outcome >>

\* --------------------------------------------------------- ToolRegistry

\* Some of the tools create_personal_assistant gives its agent.
ToolNames == {"web_search", "get_current_time", "calculate", "create_reminder"}

\* LOCAL: executed in-process by a handler; REMOTE: executed by the
\* service, without a handler.
ToolKinds == {"LOCAL", "REMOTE"}

Tools == [name : ToolNames, kind : ToolKinds]

Registered(name) == \E k \in 1..Len(registry) : registry[k].name = name

KindOf(name) ==
    registry[CHOOSE k \in 1..Len(registry) : registry[k].name = name].kind

\* register(tool) without the duplicate check.
RegisterAlways(tool) ==
    /\ registry' = Append(registry, tool)
    /\ toolOutcome' = ToolOutcome("register", tool.name, "none")
    /\ toolCalls' = toolCalls + 1
    /\ UNCHANGED executed

\* register(tool): fails with DuplicateToolError if tool.name is already
\* present.
Register(tool) ==
    /\ IF Registered(tool.name)
          THEN /\ toolOutcome' =
                    ToolOutcome("register", tool.name, "DuplicateToolError")
               /\ UNCHANGED registry
          ELSE /\ registry' = Append(registry, tool)
               /\ toolOutcome' = ToolOutcome("register", tool.name, "none")
    /\ toolCalls' = toolCalls + 1
    /\ UNCHANGED executed

\* invokeLocal(name, args) calling the handler of whatever tool it finds.
InvokeLocalAnyKind(name, fails) ==
    /\ IF ~Registered(name)
          THEN /\ toolOutcome' =
                    ToolOutcome("invokeLocal", name, "UnknownToolError")
               /\ UNCHANGED executed
          ELSE /\ executed' = Append(executed, name)
               /\ toolOutcome' =
                    ToolOutcome("invokeLocal", name,
                                IF fails THEN "ToolExecutionError" ELSE "none")
    /\ toolCalls' = toolCalls + 1
    /\ UNCHANGED registry

\* invokeLocal(name, args): looks up a LOCAL tool and calls its handler,
\* which returns a string or fails.  Fails with UnknownToolError if the
\* name is absent, NotLocalError if the tool is REMOTE, and with
\* ToolExecutionError if the handler fails.
InvokeLocal(name, fails) ==
    /\ IF ~Registered(name)
          THEN /\ toolOutcome' =
                    ToolOutcome("invokeLocal", name, "UnknownToolError")
               /\ UNCHANGED executed
          ELSE IF KindOf(name) = "REMOTE"
          THEN /\ toolOutcome' =
                    ToolOutcome("invokeLocal", name, "NotLocalError")
               /\ UNCHANGED executed
          ELSE /\ executed' = Append(executed, name)
               /\ toolOutcome' =
                    ToolOutcome("invokeLocal", name,
                                IF fails THEN "ToolExecutionError" ELSE "none")
    /\ toolCalls' = toolCalls + 1
    /\ UNCHANGED registry

\* No call on the two assistants is made or in progress.
AssistantsAtRest ==
    UNCHANGED << assistantVars, threadVars, mailVars, restVars >>

\* The callers of the registry, while the assistants are at rest.
RegistryNext ==
    \/ \E tool \in Tools :
            /\ toolCalls < MaxToolCalls
            /\ Register(tool) /\ UNCHANGED loopVars /\ AssistantsAtRest
    \/ \E name \in ToolNames : \E fails \in BOOLEAN :
            /\ toolCalls < MaxToolCalls
            /\ InvokeLocal(name, fails)
            /\ UNCHANGED loopVars /\ AssistantsAtRest

RegistrySpec == Init /\ [][RegistryNext]_vars

\* ---------------------------------------------- the tools of the agent

\* The tools create_personal_assistant gives its agent, with the side that
\* executes each: WebSearchTool() is hosted by the service, a
\* @function_tool runs in the process.
AgentTools ==
    << [name |-> "web_search", kind |-> "REMOTE"],
       [name |-> "get_current_time", kind |-> "LOCAL"],
       [name |-> "calculate", kind |-> "LOCAL"],
       [name |-> "create_reminder", kind |-> "LOCAL"] >>

\* What can go wrong inside the body of a handler: nothing, the time zone
\* is unknown to pytz, or any other exception.
Faults == {"none", "UnknownTimeZoneError", "Exception"}

\* How the body of a function tool ends under a fault: get_current_time
\* catches UnknownTimeZoneError alone, calculate catches every Exception,
\* create_reminder has no try.
HandlerOutcome(name, fault) ==
    IF name = "get_current_time"
    THEN IF fault = "none"
         THEN [raised |-> FALSE, value |-> "Current time in tz"]
         ELSE IF fault = "UnknownTimeZoneError"
         THEN [raised |-> FALSE, value |-> "Unknown timezone"]
         ELSE [raised |-> TRUE, value |-> "none"]
    ELSE IF name = "calculate"
    THEN IF fault = "none"
         THEN [raised |-> FALSE, value |-> "expression = result"]
         ELSE [raised |-> FALSE, value |-> "Error calculating expression"]
    ELSE IF fault = "none"
         THEN [raised |-> FALSE, value |-> "Reminder created"]
         ELSE [raised |-> TRUE, value |-> "none"]

\* ------------------------------------------------------ OrchestrationLoop

\* The fixed maximum depth of the tool loop (a design constant).
MaxDepth == 3

\* What the service may name when it pauses for a local tool.
Requested == ToolNames \cup {"no_such_tool"}

\* The string fed back to the service for a handler that failed.
ToolErrorText == "Error running tool"

\* The ids the service gives the tool calls it pauses on.
CallIds == {"call_1", "call_2"}

\* The item of a continuation request: the output of a tool, keyed by the
\* id of the call.
ToolOutput(id, out) == [call_id |-> id, output |-> out]

\* Startup: the agent's tools are registered, in order; the registry is
\* read-only afterwards.
Startup ==
    /\ Len(registry) < Len(AgentTools)
    /\ Register(AgentTools[Len(registry) + 1])
    /\ UNCHANGED loopVars

\* run(utterance), steps 1 and 2: the request is built and issued.
RunStart ==
    /\ runState \in {"IDLE", "COMPLETED", "FAILED"}
    /\ Len(registry) = Len(AgentTools)
    /\ runState' = "STREAMING"
    /\ rounds' = 0
    /\ runError' = "none"
    /\ pendingCall' = "none"
    /\ callId' = "none"
    /\ fedBack' = <<>>
    /\ runs' = runs + 1
    /\ UNCHANGED << lastFault, registryVars >>

\* The aggregated result is final: the run completes.
RunCompleted ==
    /\ runState = "STREAMING"
    /\ runState' = "COMPLETED"
    /\ UNCHANGED << rounds, runError, pendingCall, callId, fedBack, runs,
                    lastFault, registryVars >>

\* The stream or the transport fails: the run fails.
RunStreamError ==
    /\ runState = "STREAMING"
    /\ runState' = "FAILED"
    /\ runError' = "StreamError"
    /\ UNCHANGED << rounds, pendingCall, callId, fedBack, runs, lastFault,
                    registryVars >>

\* Step 3 without the depth bound.
RunPausedUnbounded(name, id) ==
    /\ runState = "STREAMING"
    /\ runState' = "AWAITING_LOCAL_TOOL"
    /\ pendingCall' = name
    /\ callId' = id
    /\ UNCHANGED << rounds, runError, fedBack, runs, lastFault,
                    registryVars >>

\* Step 3: the service paused awaiting the output of a tool; beyond the
\* maximum depth the run fails with ToolLoopExceededError.
RunPaused(name, id) ==
    /\ runState = "STREAMING"
    /\ IF rounds >= MaxDepth
          THEN /\ runState' = "FAILED"
               /\ runError' = "ToolLoopExceededError"
               /\ UNCHANGED << pendingCall, callId >>
          ELSE /\ runState' = "AWAITING_LOCAL_TOOL"
               /\ pendingCall' = name
               /\ callId' = id
               /\ UNCHANGED runError
    /\ UNCHANGED << rounds, fedBack, runs, lastFault, registryVars >>

\* Step 3 letting the error of a handler abort the run.
RunLocalToolAborts(fault) ==
    /\ runState = "AWAITING_LOCAL_TOOL"
    /\ InvokeLocal(pendingCall, HandlerOutcome(pendingCall, fault).raised)
    /\ lastFault' = fault
    /\ IF toolOutcome'.error # "none"
          THEN /\ runState' = "FAILED"
               /\ runError' = toolOutcome'.error
               /\ UNCHANGED << rounds, fedBack >>
          ELSE /\ runState' = "STREAMING"
               /\ rounds' = rounds + 1
               /\ fedBack' =
                    Append(fedBack,
                           ToolOutput(callId,
                               HandlerOutcome(pendingCall, fault).value))
               /\ UNCHANGED runError
    /\ UNCHANGED << pendingCall, callId, runs >>

\* Step 3 sending every output under the id of the first call.
RunLocalToolFirstCallId(fault) ==
    /\ runState = "AWAITING_LOCAL_TOOL"
    /\ InvokeLocal(pendingCall, HandlerOutcome(pendingCall, fault).raised)
    /\ lastFault' = fault
    /\ IF toolOutcome'.error \in {"UnknownToolError", "NotLocalError"}
          THEN /\ runState' = "FAILED"
               /\ runError' = toolOutcome'.error
               /\ UNCHANGED << rounds, fedBack >>
          ELSE /\ runState' = "STREAMING"
               /\ rounds' = rounds + 1
               /\ fedBack' =
                    Append(fedBack,
                           ToolOutput("call_1",
                               IF toolOutcome'.error = "ToolExecutionError"
                                  THEN ToolErrorText
                                  ELSE HandlerOutcome(pendingCall, fault).value))
               /\ UNCHANGED runError
    /\ UNCHANGED << pendingCall, callId, runs >>

\* Step 3: the tool is invoked through the registry and its output is
\* sent in a continuation request.  The error of a handler is caught and
\* fed back as a string; the other errors of invokeLocal abort the run.
RunLocalTool(fault) ==
    /\ runState = "AWAITING_LOCAL_TOOL"
    /\ InvokeLocal(pendingCall, HandlerOutcome(pendingCall, fault).raised)
    /\ lastFault' = fault
    /\ IF toolOutcome'.error \in {"UnknownToolError", "NotLocalError"}
          THEN /\ runState' = "FAILED"
               /\ runError' = toolOutcome'.error
               /\ UNCHANGED << rounds, fedBack >>
          ELSE /\ runState' = "STREAMING"
               /\ rounds' = rounds + 1
               /\ fedBack' =
                    Append(fedBack,
                           ToolOutput(callId,
                               IF toolOutcome'.error = "ToolExecutionError"
                                  THEN ToolErrorText
                                  ELSE HandlerOutcome(pendingCall, fault).value))
               /\ UNCHANGED runError
    /\ UNCHANGED << pendingCall, callId, runs >>

\* The orchestration loop with the agent's tools, the assistants at rest.
LoopNext ==
    \/ Startup /\ AssistantsAtRest
    \/ runs < MaxRuns /\ RunStart /\ AssistantsAtRest
    \/ RunCompleted /\ AssistantsAtRest
    \/ RunStreamError /\ AssistantsAtRest
    \/ \E name \in Requested : \E id \in CallIds :
            RunPaused(name, id) /\ AssistantsAtRest
    \/ \E fault \in Faults : RunLocalTool(fault) /\ AssistantsAtRest

\* The service answers every request and a handler always returns or
\* raises: a run in flight takes its next step.
RunInFlight ==
    /\ runState \in {"STREAMING", "AWAITING_LOCAL_TOOL"}
    /\ LoopNext

LoopSpec == Init /\ [][LoopNext]_vars /\ WF_vars(RunInFlight)

\* ------------------------------------------- the mail and calendar tools

\* What a remote call (.execute()) can do: raise, return a reply that
\* lacks what the operation reads from it, or return a complete reply.
RemoteReplies == {"fails", "malformed", "ok"}

\* Getting the authenticated service: it raises or returns.
AuthReplies == {"fails", "ok"}

\* A remote call as the operation made it; read: the operation reads
\* required fields of the reply.
Call(c, r, read) == [call |-> c, reply |-> r, read |-> read]

\* The call raised, inside the call or while its reply was read.
Broke(entry) ==
    entry.reply = "fails" \/ (entry.reply = "malformed" /\ entry.read)

\* except Exception as e: return [{'error': str(e)}]
ErrorList == << [error |-> "e"] >>

\* except Exception as e: return {'success': False, 'message': ...}
Failure == [success |-> FALSE, message |-> "Error: e"]

Email(m) ==
    [id |-> m, subject |-> "s", sender |-> "f", date |-> "d", body |-> "b"]

Event(k) ==
    [id |-> k, summary |-> "s", start |-> "t1", end |-> "t2",
     location |-> "", description |-> "", attendees |-> <<>>]

Sent == [success |-> TRUE, message |-> "Email sent successfully!"]

Saved(m) ==
    [success |-> TRUE, event_id |-> 1, html_link |-> "l", message |-> m]

Deleted == [success |-> TRUE, message |-> "Event deleted successfully!"]

Authenticated == << Call("auth", "ok", FALSE) >>

\* The result of an operation that could not get its service.
NoService(value) ==
    [log |-> << Call("auth", "fails", FALSE) >>, value |-> value]

\* The loop of read_emails going on to the next message when one fails.
RECURSIVE ReadLoopSkipsFailed(_, _, _, _, _)
ReadLoopSkipsFailed(n, gets, k, emails, log) ==
    IF k > n THEN [log |-> log, value |-> emails]
    ELSE LET entry == Call("messages.get", gets[k], TRUE)
         IN  IF Broke(entry)
             THEN ReadLoopSkipsFailed(n, gets, k + 1, emails,
                                      Append(log, entry))
             ELSE ReadLoopSkipsFailed(n, gets, k + 1,
                                      Append(emails, Email(k)),
                                      Append(log, entry))

\* The loop of read_emails from message k on: each message is fetched and
\* parsed; the first exception ends the operation.
RECURSIVE ReadLoop(_, _, _, _, _)
ReadLoop(n, gets, k, emails, log) ==
    IF k > n THEN [log |-> log, value |-> emails]
    ELSE LET entry == Call("messages.get", gets[k], TRUE)
         IN  IF Broke(entry)
             THEN [log |-> Append(log, entry), value |-> ErrorList]
             ELSE ReadLoop(n, gets, k + 1, Append(emails, Email(k)),
                           Append(log, entry))

\* read_emails: n messages listed (a malformed list has entries without
\* an id).
ReadEmailsResult(auth, listReply, n, gets) ==
    IF auth = "fails" THEN NoService(ErrorList)
    ELSE LET l == Call("messages.list", listReply, n > 0)
         IN  IF Broke(l)
             THEN [log |-> Append(Authenticated, l), value |-> ErrorList]
             ELSE ReadLoop(n, gets, 1, <<>>, Append(Authenticated, l))

\* send_email: badAttachment is an attachment without 'content' or
\* 'filename'; the reply of send is not read.
SendEmailResult(auth, badAttachment, sendReply) ==
    IF auth = "fails" THEN NoService(Failure)
    ELSE IF badAttachment THEN [log |-> Authenticated, value |-> Failure]
    ELSE LET c == Call("messages.send", sendReply, FALSE)
         IN  [log |-> Append(Authenticated, c),
              value |-> IF Broke(c) THEN Failure ELSE Sent]

\* list_events: n events listed (a malformed list has events without
\* 'id', 'start' or 'end').
ListEventsResult(auth, listReply, n) ==
    IF auth = "fails" THEN NoService(ErrorList)
    ELSE LET l == Call("events.list", listReply, n > 0)
         IN  [log |-> Append(Authenticated, l),
              value |-> IF Broke(l) THEN ErrorList
                        ELSE [k \in 1..n |-> Event(k)]]

\* create_event: 'id' and 'htmlLink' of the reply are read.
CreateEventResult(auth, insertReply) ==
    IF auth = "fails" THEN NoService(Failure)
    ELSE LET c == Call("events.insert", insertReply, TRUE)
         IN  [log |-> Append(Authenticated, c),
              value |-> IF Broke(c) THEN Failure
                        ELSE Saved("Event created successfully!")]

\* update_event: the event is fetched, changed (its 'start' and 'end'
\* are read only if a time is given) and sent back.
UpdateEventResult(auth, setsTime, getReply, updateReply) ==
    IF auth = "fails" THEN NoService(Failure)
    ELSE LET g == Call("events.get", getReply, setsTime)
             u == Call("events.update", updateReply, TRUE)
         IN  IF Broke(g)
             THEN [log |-> Append(Authenticated, g), value |-> Failure]
             ELSE [log |-> Authenticated \o << g, u >>,
                   value |-> IF Broke(u) THEN Failure
                             ELSE Saved("Event updated successfully!")]

\* delete_event: the reply of delete is not read.
DeleteEventResult(auth, deleteReply) ==
    IF auth = "fails" THEN NoService(Failure)
    ELSE LET c == Call("events.delete", deleteReply, FALSE)
         IN  [log |-> Append(Authenticated, c),
              value |-> IF Broke(c) THEN Failure ELSE Deleted]

\* The operation returns to its caller.
Returns(name, res) ==
    /\ opName' = name
    /\ opOutcome' = Return(res.value)
    /\ opLog' = res.log
    /\ opsDone' = opsDone + 1
    /\ UNCHANGED << assistantVars, threadVars, registryVars, loopVars,
                    restVars >>

\* The callers of the mail and calendar tools.
MailNext ==
    \/ \E auth \in AuthReplies : \E l \in RemoteReplies :
        \E n \in 0..MaxItems : \E gets \in [1..n -> RemoteReplies] :
            opsDone < MaxOps /\ Returns("read_emails", ReadEmailsResult(auth, l, n, gets))
    \/ \E auth \in AuthReplies : \E bad \in BOOLEAN :
        \E r \in RemoteReplies :
            opsDone < MaxOps /\ Returns("send_email", SendEmailResult(auth, bad, r))
    \/ \E auth \in AuthReplies : \E l \in RemoteReplies :
        \E n \in 0..MaxItems :
            opsDone < MaxOps /\ Returns("list_events", ListEventsResult(auth, l, n))
    \/ \E auth \in AuthReplies : \E r \in RemoteReplies :
            opsDone < MaxOps /\ Returns("create_event", CreateEventResult(auth, r))
    \/ \E auth \in AuthReplies : \E t \in BOOLEAN :
        \E g \in RemoteReplies : \E u \in RemoteReplies :
            opsDone < MaxOps /\ Returns("update_event", UpdateEventResult(auth, t, g, u))
    \/ \E auth \in AuthReplies : \E r \in RemoteReplies :
            opsDone < MaxOps /\ Returns("delete_event", DeleteEventResult(auth, r))

MailSpec == Init /\ [][MailNext]_vars

\* ----------------------------------------------------------------- Next

\* The two assistants make no call on the tool registry and do not go
\* through the orchestration loop; the caller has one thread.
NoRegistryCall ==
    UNCHANGED << registryVars, loopVars, threadVars, mailVars, restVars >>

\* One step of the program against a service that answers at most maxReq
\* requests with streams of at most maxEv events of the given kinds; the
\* assistants have no part in the tool registry.
Step(maxReq, maxEv, kinds) ==
    \/ pc = "idle" /\ CreateVectorStore /\ NoRegistryCall
    \/ \E q \in Queries :
            pc = "idle" /\ NoVectorStore(q) /\ NoRegistryCall
    \/ \E q \in Queries : \E reply \in Replies(nextId) :
            /\ pc = "idle" /\ nextId <= maxReq
            /\ Search(q, reply) /\ NoRegistryCall
    \/ \E q \in Queries : \E raises \in BOOLEAN :
            /\ pc = "idle" /\ nextId <= maxReq
            /\ SearchStreaming(q, raises) /\ NoRegistryCall
    \/ /\ pc = "search_streaming" /\ Len(events) < maxEv
       /\ \E event \in Yield(kinds, InFlight.id) :
            SearchStreamingEvent(event) /\ NoRegistryCall
    \/ pc = "search_streaming" /\ SearchStreamingEnd /\ NoRegistryCall
    \/ pc = "search_streaming" /\ SearchStreamingRaise /\ NoRegistryCall
    \/ \E q \in Queries : \E raises \in BOOLEAN :
            /\ pc = "idle" /\ nextId <= maxReq
            /\ StreamResponse(q, raises) /\ NoRegistryCall
    \/ /\ pc = "_stream_response" /\ Len(events) < maxEv
       /\ \E event \in Yield(kinds, InFlight.id) :
            StreamResponseEvent(event) /\ NoRegistryCall
    \/ pc = "_stream_response" /\ StreamResponseEnd /\ NoRegistryCall
    \/ pc = "_stream_response" /\ StreamResponseRaise /\ NoRegistryCall
    \/ \E q \in Queries : \E reply \in Replies(nextId) :
            /\ pc = "idle" /\ nextId <= maxReq
            /\ SyncResponse(q, reply) /\ NoRegistryCall
    \/ pc = "idle" /\ ResetConversation /\ NoRegistryCall

\* Conversations of several turns with short streams.
Next == Step(MaxRequests, MaxEvents, "chain")

Spec == Init /\ [][Next]_vars

\* Two threads calling into the same assistants: the second one calls
\* while the first is inside a stream loop.
ThreadNext ==
    \/ Step(2, MaxEvents, "chain")
    \/ \E q \in Queries : \E reply \in Replies(nextId) :
            /\ pc = "search_streaming" /\ nextId <= 2
            /\ SecondSearch(q, reply)
            /\ UNCHANGED << registryVars, loopVars, mailVars, restVars >>
    \/ \E q \in Queries : \E reply \in Replies(nextId) :
            /\ pc = "_stream_response" /\ nextId <= 2
            /\ SecondSyncResponse(q, reply)
            /\ UNCHANGED << registryVars, loopVars, mailVars, restVars >>

ThreadSpec == Init /\ [][ThreadNext]_vars

\* The caller may cancel a streamed call at any of its events.
CancelNext ==
    \/ Step(2, MaxEvents, "chain")
    \/ pc = "search_streaming" /\ SearchStreamingCancel /\ NoRegistryCall
    \/ pc = "_stream_response" /\ StreamResponseCancel /\ NoRegistryCall

CancelSpec == Init /\ [][CancelNext]_vars

\* One turn from the fresh state with a long stream.
FoldNext == Step(1, MaxStreamEvents, "all")

FoldSpec == Init /\ [][FoldNext]_vars

\* ------------------------------------------- update_event on the calendar

\* The most update_event calls of a run.
MaxUpdates == 1

\* "if summary:": the argument is given and its value is not empty.
Truthy(arg, empty) == arg # Omitted /\ arg[1] # empty

\* The arguments update_event is called with.
UpdateArguments ==
    [calendar_id : CalendarIds, event_id : EventIds,
     summary : {Omitted, << "" >>, << "retro" >>},
     location : {Omitted, << "hall" >>},
     description : {Omitted, << "moved" >>},
     start_time : {Omitted, << "t3" >>},
     end_time : {Omitted, << "t4" >>},
     attendees : {Omitted, << << "new@x" >> >>}]

\* update_event assigning every argument, given or not.
ChangedAll(event, a) ==
    [event EXCEPT
        !.summary = IF a.summary # Omitted THEN a.summary[1] ELSE "null",
        !.location = IF a.location # Omitted THEN a.location[1] ELSE "null",
        !.description =
            IF a.description # Omitted THEN a.description[1] ELSE "null",
        !.start.dateTime =
            IF a.start_time # Omitted THEN a.start_time[1] ELSE "null",
        !.end.dateTime =
            IF a.end_time # Omitted THEN a.end_time[1] ELSE "null",
        !.attendees =
            IF a.attendees # Omitted
            THEN [k \in 1..Len(a.attendees[1]) |->
                    [email |-> a.attendees[1][k]]]
            ELSE <<>>]

\* "Update fields if provided": the fetched event after the six ifs.
Changed(event, a) ==
    [event EXCEPT
        !.summary = IF Truthy(a.summary, "") THEN a.summary[1] ELSE @,
        !.location = IF Truthy(a.location, "") THEN a.location[1] ELSE @,
        !.description =
            IF Truthy(a.description, "") THEN a.description[1] ELSE @,
        !.start.dateTime =
            IF Truthy(a.start_time, "") THEN a.start_time[1] ELSE @,
        !.end.dateTime =
            IF Truthy(a.end_time, "") THEN a.end_time[1] ELSE @,
        !.attendees =
            IF Truthy(a.attendees, <<>>)
            THEN [k \in 1..Len(a.attendees[1]) |->
                    [email |-> a.attendees[1][k]]]
            ELSE @]

\* A call on service.events() with its parameters; body: the event the
\* call returned (get) or carried (update).
EventsCall(c, a, body) ==
    [call |-> c, calendarId |-> a.calendar_id, eventId |-> a.event_id,
     body |-> body]

\* update_event, from the call to the return: the event is fetched, the
\* given fields are assigned, and the event is sent back; the service
\* stores the body of an update it accepts.
UpdateEvent(a, auth, getReply, updateReply) ==
    LET setsTime == Truthy(a.start_time, "") \/ Truthy(a.end_time, "")
        res == UpdateEventResult(auth, setsTime, getReply, updateReply)
        key == << a.calendar_id, a.event_id >>
        fetched == calendar[key]
        body == Changed(fetched, a)
        got == EventsCall("events.get", a, fetched)
        put == EventsCall("events.update", a, body)
    IN  /\ updateArgs' = a
        /\ apiCalls' = IF auth = "fails" THEN <<>>
                       ELSE IF Broke(Call("events.get", getReply, setsTime))
                       THEN << got >>
                       ELSE << got, put >>
        /\ calendar' = IF Len(res.log) = 3 /\ updateReply # "fails"
                          THEN [calendar EXCEPT ![key] = body]
                          ELSE calendar
        /\ opName' = "update_event"
        /\ opOutcome' = Return(res.value)
        /\ opLog' = res.log
        /\ opsDone' = opsDone + 1
        /\ UNCHANGED << assistantVars, threadVars, registryVars, loopVars,
                        servicesVars, tokenVars, uploadVars >>

\* The replies update_event can meet: a call that is not made has no
\* reply to draw (it is given as "ok").
UpdateReplies ==
    { r \in [auth : AuthReplies, get : RemoteReplies,
              update : RemoteReplies] :
        /\ r.auth = "fails" => r.get = "ok"
        /\ (r.auth = "fails" \/ r.get = "fails") => r.update = "ok" }

\* The callers of update_event.
UpdateNext ==
    \E a \in UpdateArguments : \E r \in UpdateReplies :
        /\ opsDone < MaxUpdates
        /\ UpdateEvent(a, r.auth, r.get, r.update)

UpdateSpec == Init /\ [][UpdateNext]_vars

\* ---------------------------------------------------------- GoogleServices

\* The most constructor calls of one thread.
MaxConstructs == 2

\* A GoogleServices object as super().__new__ makes it: the attributes of
\* the class, all None.
NewObject == [credentials |-> FALSE, gmail |-> FALSE, calendar |-> FALSE]

\* The thread is not inside __new__.
Outside(t) == newPc[t] = "idle"

\* The constructor call of thread t ends.
Ends(t, how) ==
    /\ constructed' = [constructed EXCEPT ![t] = Append(@, how)]
    /\ newPc' = [newPc EXCEPT ![t] = "idle"]

\* What the steps of __new__ leave alone.
NewFrame ==
    UNCHANGED << assistantVars, threadVars, registryVars, loopVars,
                 mailVars, calendarVars, tokenVars, uploadVars >>

\* GoogleServices() is called: "if cls._instance is None".
NewCheck(t) ==
    /\ Outside(t)
    /\ newPc' = [newPc EXCEPT ![t] = IF cls_instance = None
                                       THEN "create" ELSE "return"]
    /\ UNCHANGED << cls_instance, objects, self, constructed, initRuns >>
    /\ NewFrame

\* "cls._instance = super(GoogleServices, cls).__new__(cls)"
NewCreate(t) ==
    /\ newPc[t] = "create"
    /\ objects' = Append(objects, NewObject)
    /\ cls_instance' = Len(objects) + 1
    /\ newPc' = [newPc EXCEPT ![t] = "initialize"]
    /\ UNCHANGED << self, constructed, initRuns >>
    /\ NewFrame

\* "cls._instance._initialize()": the object the class holds now is the
\* one that is initialized.
NewInitialize(t) ==
    /\ newPc[t] = "initialize"
    /\ self' = [self EXCEPT ![t] = cls_instance]
    /\ initRuns' = initRuns + 1
    /\ newPc' = [newPc EXCEPT ![t] = "credentials"]
    /\ UNCHANGED << cls_instance, objects, constructed >>
    /\ NewFrame

\* One assignment of _initialize: the attribute is set, or the call that
\* computes it raises and the exception leaves __new__.
Assign(t, at, attribute, next, raises) ==
    /\ newPc[t] = at
    /\ IF raises
          THEN /\ Ends(t, Raise("Exception"))
               /\ UNCHANGED objects
          ELSE /\ objects' = [objects EXCEPT ![self[t]][attribute] = TRUE]
               /\ newPc' = [newPc EXCEPT ![t] = next]
               /\ UNCHANGED constructed
    /\ UNCHANGED << cls_instance, self, initRuns >>
    /\ NewFrame

\* "self._credentials = self._get_credentials()"
GetCredentials(t, raises) ==
    Assign(t, "credentials", "credentials", "gmail", raises)

\* "self._gmail = build('gmail', 'v1', credentials=self._credentials)"
BuildGmail(t, raises) == Assign(t, "gmail", "gmail", "calendar", raises)

\* "self._calendar = build('calendar', 'v3', ...)"
BuildCalendar(t, raises) ==
    Assign(t, "calendar", "calendar", "return", raises)

\* "return cls._instance"
NewReturn(t) ==
    /\ newPc[t] = "return"
    /\ Ends(t, Return(cls_instance))
    /\ UNCHANGED << cls_instance, objects, self, initRuns >>
    /\ NewFrame

\* The steps of a constructor call that is under way.
NewStep(t) ==
    \/ newPc[t] = "create" /\ NewCreate(t)
    \/ newPc[t] = "initialize" /\ NewInitialize(t)
    \/ \E raises \in BOOLEAN :
            newPc[t] = "credentials" /\ GetCredentials(t, raises)
    \/ \E raises \in BOOLEAN : newPc[t] = "gmail" /\ BuildGmail(t, raises)
    \/ \E raises \in BOOLEAN :
            newPc[t] = "calendar" /\ BuildCalendar(t, raises)
    \/ newPc[t] = "return" /\ NewReturn(t)

\* Two threads that construct GoogleServices, each step of __new__ a
\* point where the other thread may run.
ServicesNext ==
    \/ \E t \in Threads :
            Len(constructed[t]) < MaxConstructs /\ NewCheck(t)
    \/ \E t \in Threads : NewStep(t)

ServicesSpec == Init /\ [][ServicesNext]_vars

\* Constructor calls one after the other: a call starts when no other
\* call is under way.
ConstructNext ==
    \/ \E t \in Threads :
            /\ Len(constructed[t]) < MaxConstructs
            /\ \A u \in Threads : Outside(u)
            /\ NewCheck(t)
    \/ \E t \in Threads : NewStep(t)

ConstructSpec == Init /\ [][ConstructNext]_vars

\* ------------------------------------------ PDFSearchAssistant.upload_pdf

\* The most method calls of a run.
MaxCalls == 3

\* The method is called.
Logged(method) == called' = Append(called, method)

\* The dictionary upload_pdf returns.
UploadStatus(status) == Return(<< status >>)

\* The part of upload_pdf after the guard: the file is opened and sent
\* (files.create), then attached to the vector store
\* (vector_stores.files.create); any exception ends in the status
\* "failed".
Upload(opens, createReply, attachReply) ==
    IF ~opens \/ createReply = "fails"
    THEN /\ outcome' = UploadStatus("failed")
         /\ UNCHANGED files
    ELSE /\ files' = Append(files, [file_id |-> Len(files) + 1,
                                    attached |-> attachReply # "fails"])
         /\ outcome' = UploadStatus(IF attachReply = "fails"
                                       THEN "failed" ELSE "success")

\* upload_pdf sending the file before it looks at the vector store id.
UploadPdfUnguarded(opens, createReply, attachReply) ==
    /\ Logged("upload_pdf")
    /\ Upload(opens, createReply, attachReply)
    /\ UNCHANGED << vector_store_id, conversation_history, conversation_id,
                    pc, full_text, current_response_id, query, printed,
                    events, requests, nextId, turns, wasReset >>

\* upload_pdf, from the call to the return.
UploadPdf(opens, createReply, attachReply) ==
    /\ Logged("upload_pdf")
    /\ IF vector_store_id = None
          THEN /\ outcome' = Raise("ValueError")
               /\ UNCHANGED files
          ELSE Upload(opens, createReply, attachReply)
    /\ UNCHANGED << vector_store_id, conversation_history, conversation_id,
                    pc, full_text, current_response_id, query, printed,
                    events, requests, nextId, turns, wasReset >>

\* What the methods of PDFSearchAssistant leave alone.
UploadFrame ==
    UNCHANGED << registryVars, loopVars, threadVars, mailVars, calendarVars,
                 servicesVars, tokenVars >>

\* The callers of PDFSearchAssistant, each call on record.
UploadNext ==
    \/ /\ pc = "idle" /\ Len(called) < MaxCalls
       /\ CreateVectorStore /\ Logged("create_vector_store")
       /\ UNCHANGED files /\ UploadFrame
    \/ \E opens \in BOOLEAN : \E c \in {"fails", "ok"} :
        \E a \in {"fails", "ok"} :
            /\ pc = "idle" /\ Len(called) < MaxCalls
            /\ UploadPdf(opens, c, a) /\ UploadFrame
    \/ \E q \in Queries : \E method \in {"search", "search_streaming"} :
            /\ pc = "idle" /\ Len(called) < MaxCalls
            /\ NoVectorStore(q) /\ Logged(method)
            /\ UNCHANGED files /\ UploadFrame
    \/ \E q \in Queries : \E reply \in Replies(nextId) :
            /\ pc = "idle" /\ Len(called) < MaxCalls
            /\ Search(q, reply) /\ Logged("search")
            /\ UNCHANGED files /\ UploadFrame
    \/ \E q \in Queries : \E raises \in BOOLEAN :
            /\ pc = "idle" /\ Len(called) < MaxCalls
            /\ SearchStreaming(q, raises) /\ Logged("search_streaming")
            /\ UNCHANGED files /\ UploadFrame
    \/ /\ pc = "search_streaming" /\ Len(events) < MaxEvents
       /\ \E event \in Yield("chain", InFlight.id) :
            SearchStreamingEvent(event)
       /\ UNCHANGED uploadVars /\ UploadFrame
    \/ /\ pc = "search_streaming" /\ SearchStreamingEnd
       /\ UNCHANGED uploadVars /\ UploadFrame
    \/ /\ pc = "search_streaming" /\ SearchStreamingRaise
       /\ UNCHANGED uploadVars /\ UploadFrame

UploadSpec == Init /\ [][UploadNext]_vars

\* ------------------------------------- get_calendar_service and token.json

\* Calls of get_calendar_service, and token files written, in one behaviour.
MaxAuths == 3

MaxWrites == 4

\* SCOPES of google_calendar_tools, and of the other tools that share the
\* same token.json: gmail_tools asks for the mail scopes only, GoogleServices
\* for the mail scopes and the calendar scope.
CalendarScopes == {"calendar"}

OtherScopes == {{"gmail"}, {"gmail", "calendar"}}

\* creds.to_json() written to token.json: fresh credentials, valid, holding
\* the scopes that were asked for.
WrittenToken(scopes, by) ==
    [exists |-> TRUE, scopes |-> scopes, state |-> "valid",
     serial |-> written + 1, by |-> by]

\* The credentials read from token.json: none when the file is missing or
\* lacks the calendar scope, otherwise the stored ones, which are valid,
\* expired with a refresh token ("expired"), or neither ("dead").
StoredCreds ==
    IF token.exists /\ "calendar" \in token.scopes THEN token.state ELSE "none"

\* get_calendar_service ends, returning the service or raising.
AuthEnds(how) ==
    /\ opName' = "get_calendar_service"
    /\ opOutcome' = how
    /\ opLog' = <<>>
    /\ opsDone' = opsDone + 1
    /\ UNCHANGED << assistantVars, threadVars, registryVars, loopVars,
                    calendarVars, servicesVars, uploadVars >>

\* build('calendar', 'v3', credentials=creds), then return service.
BuildService(builds) ==
    AuthEnds(IF builds THEN Return("service") ELSE Raise("HttpError"))

\* The fresh authorization without the rename of the existing token file.
GetCalendarServiceNoBackup(flow, refresh, renames, builds) ==
    IF StoredCreds = "valid"
    THEN UNCHANGED tokenVars /\ BuildService(builds)
    ELSE IF StoredCreds = "expired"
    THEN IF refresh
         THEN /\ token' = WrittenToken(CalendarScopes, "refresh")
              /\ written' = written + 1
              /\ bak' = bak
              /\ BuildService(builds)
         ELSE UNCHANGED tokenVars /\ AuthEnds(Raise("RefreshError"))
    ELSE IF flow
         THEN /\ token' = WrittenToken(CalendarScopes, "flow")
              /\ written' = written + 1
              /\ bak' = bak
              /\ BuildService(builds)
         ELSE UNCHANGED tokenVars /\ AuthEnds(Raise("FlowError"))

\* get_calendar_service(): flow, refresh, renames and builds say whether the
\* authorization flow, the refresh request, os.rename onto an existing
\* token.json.bak, and build succeed.
GetCalendarService(flow, refresh, renames, builds) ==
    IF StoredCreds = "valid"
    THEN UNCHANGED tokenVars /\ BuildService(builds)
    ELSE IF StoredCreds = "expired"
    THEN IF refresh
         THEN /\ token' = WrittenToken(CalendarScopes, "refresh")
              /\ written' = written + 1
              /\ bak' = bak
              /\ BuildService(builds)
         ELSE UNCHANGED tokenVars /\ AuthEnds(Raise("RefreshError"))
    ELSE IF token.exists /\ bak.exists /\ ~renames
    THEN UNCHANGED tokenVars /\ AuthEnds(Raise("FileExistsError"))
    ELSE LET kept == IF token.exists THEN token ELSE bak
         IN  IF flow
             THEN /\ token' = WrittenToken(CalendarScopes, "flow")
                  /\ written' = written + 1
                  /\ bak' = kept
                  /\ BuildService(builds)
             ELSE /\ token' = NoFile
                  /\ bak' = kept
                  /\ written' = written
                  /\ AuthEnds(Raise("FlowError"))

\* What happens to token.json between two calls.
TokenFrame ==
    UNCHANGED << assistantVars, threadVars, registryVars, loopVars, mailVars,
                 calendarVars, servicesVars, uploadVars >>

\* The stored credentials pass their expiry.
TokenExpires(state) ==
    /\ token.exists
    /\ token.state = "valid"
    /\ token' = [token EXCEPT !.state = state]
    /\ UNCHANGED << bak, written >>
    /\ TokenFrame

\* get_gmail_service or GoogleServices._get_credentials authorizes and
\* writes token.json with its own scopes, when it finds no valid token.
OtherToolAuthorizes(scopes) ==
    /\ ~token.exists \/ token.state # "valid"
    /\ token' = WrittenToken(scopes, "other")
    /\ written' = written + 1
    /\ bak' = bak
    /\ TokenFrame

TokenNext ==
    \/ \E flow \in BOOLEAN : \E refresh \in BOOLEAN :
       \E renames \in BOOLEAN : \E builds \in BOOLEAN :
            /\ opsDone < MaxAuths
            /\ written < MaxWrites
            /\ GetCalendarService(flow, refresh, renames, builds)
    \/ \E state \in {"expired", "dead"} : TokenExpires(state)
    \/ \E scopes \in OtherScopes :
            written < MaxWrites /\ OtherToolAuthorizes(scopes)

TokenSpec == Init /\ [][TokenNext]_vars

\* ------------------------------------------------------------ the claims

\* The last-turn identifier a conversation has stored: the advisor keeps
\* it in conversation_id, the PDF assistant in its last history entry.
StoredId(c) ==
    IF c = "adv" THEN conversation_id
    ELSE IF conversation_history = <<>> THEN None
    ELSE conversation_history[Len(conversation_history)].response_id

\* The last request of conversation c (there is one).
RECURSIVE LastRequestOf(_, _)
LastRequestOf(c, rs) ==
    IF Last(rs).client = c THEN Last(rs)
    ELSE LastRequestOf(c, SubSeq(rs, 1, Len(rs) - 1))

AllOk(ts) == \A k \in 1..Len(ts) : ts[k].end = "ok"

\* C1: between calls, a conversation whose n turns so far all succeeded
\* (streamed or not) has stored the id the service gave turn n, and the
\* transcript (the PDF assistant's history; the advisor keeps none) holds
\* exactly n entries.
C1_SuccessfulTurnsChain ==
    pc = "idle" =>
        /\ AllOk(turns["pdf"]) =>
                /\ Len(conversation_history) = Len(turns["pdf"])
                /\ turns["pdf"] # <<>> =>
                        StoredId("pdf") = Last(turns["pdf"]).id
        /\ (AllOk(turns["adv"]) /\ turns["adv"] # <<>>) =>
                StoredId("adv") = Last(turns["adv"]).id

\* Two successful turns of the PDF assistant, one streamed and one not,
\* and a successful turn of the advisor.
C1_Witness ==
    /\ pc = "idle"
    /\ Len(turns["pdf"]) = 2 /\ AllOk(turns["pdf"])
    /\ Len(turns["adv"]) = 1 /\ AllOk(turns["adv"])
    /\ \E j, k \in 1..Len(requests) :
            /\ requests[j].client = "pdf" /\ requests[j].stream
            /\ requests[k].client = "pdf" /\ ~requests[k].stream

\* C2: a turn that ends in a stream error (the stream raises, or ends
\* without a completion event) leaves the stored last-turn identifier as it
\* was when the turn's request was built, and a request issued after such
\* a turn carries the id of the last successful turn.
C2_StreamErrorKeepsChain ==
    /\ pc = "idle" =>
            \A c \in Clients :
                (turns[c] # <<>> /\ StreamError(Last(turns[c]))) =>
                    StoredId(c) = LastRequestOf(c, requests).previous_response_id
    /\ \A k \in 1..Len(requests) :
            (requests[k].after_stream_error /\ requests[k].last_ok # None) =>
                requests[k].previous_response_id = requests[k].last_ok

\* C3: every request carries the id of the most recent completed turn of
\* its conversation (the last turn that succeeded, or the last response
\* the service reported completed), and null when there is none: on the
\* first turn and after a reset.
C3_RequestCarriesLastTurn ==
    \A k \in 1..Len(requests) :
        /\ requests[k].previous_response_id
                \in {requests[k].last_ok, requests[k].last_reported}
        /\ requests[k].after_reset => requests[k].previous_response_id = None

\* C4: when the last call recorded a failed turn of the PDF assistant (the
\* call returned, so the attempt is in the transcript, and the turn did not
\* succeed), the identifier used for chaining is still the one the turn's
\* request was built with.
C4_FailedTurnRecorded ==
    (/\ pc = "idle"
     /\ requests # <<>>
     /\ Last(requests).client = "pdf"
     /\ outcome.kind = "return"
     /\ Last(turns["pdf"]).end # "ok") =>
        /\ conversation_history # <<>>
        /\ PreviousResponseId(conversation_history)
                = Last(requests).previous_response_id

\* C5: once reset_conversation has run, and until the next request of the
\* advisor, the last-turn identifier is null; the step that resets sends no
\* request; and the first request after a reset carries no previous-turn
\* reference.  (The advisor keeps no transcript that a reset could empty.)
C5_ResetStartsFresh ==
    /\ [](wasReset => conversation_id = None)
    /\ [][(wasReset' /\ ~wasReset) =>
            (requests' = requests /\ nextId' = nextId)]_vars
    /\ [](\A k \in 1..Len(requests) :
            requests[k].after_reset => requests[k].previous_response_id = None)

\* A reset right after a successful non-streamed turn of the advisor, which
\* had stored that turn's id.
C5_Witness ==
    /\ wasReset
    /\ requests # <<>>
    /\ Last(requests).client = "adv" /\ ~Last(requests).stream
    /\ outcome.kind = "return"
    /\ conversation_id = None

\* The last call was a streamed one and its stream ran to its end (a call
\* refused for want of a vector store sends no request: it is not that).
StreamEnded ==
    /\ pc = "idle"
    /\ requests # <<>>
    /\ outcome.error # "ValueError"
    /\ Last(requests).stream
    /\ turns[Last(requests).client] # <<>>
    /\ Last(turns[Last(requests).client]).end \in {"ok", "no_completion"}

\* Text deltas followed by one completion event.
DeltasThenCompleted(evs) ==
    /\ evs # <<>>
    /\ Last(evs).type = Completed
    /\ \A k \in 1..(Len(evs) - 1) : evs[k].type = TextDelta

\* The text of the deltas of a stream, in arrival order.
RECURSIVE TextOf(_)
TextOf(evs) ==
    IF evs = <<>> THEN <<>>
    ELSE TextOf(SubSeq(evs, 1, Len(evs) - 1))
            \o (IF Last(evs).type = TextDelta THEN Last(evs).delta ELSE <<>>)

\* The text and the turn id the last call delivered: the advisor returns
\* the text and stores the id, the PDF assistant saves both in its history.
FinalText ==
    IF Last(requests).client = "adv" THEN outcome.value
    ELSE Last(conversation_history).response

TurnId ==
    IF Last(requests).client = "adv" THEN conversation_id
    ELSE Last(conversation_history).response_id

\* C6: a stream of text deltas followed by one completion event, consumed
\* to its end, makes the call return (it does not fail) with the deltas
\* concatenated in arrival order as the final text and the completion
\* event's id as the turn id, and what it reported is the deltas, one by
\* one.
C6_FoldTextDeltas ==
    (StreamEnded /\ DeltasThenCompleted(events)) =>
        /\ outcome.kind = "return"
        /\ FinalText = TextOf(events)
        /\ TurnId = Last(events).id
        /\ printed = [k \in 1..(Len(events) - 1) |-> events[k].delta]

\* The advisor has folded two deltas and the completion event.
C6_Witness ==
    /\ StreamEnded
    /\ Last(requests).client = "adv"
    /\ events = << DeltaEvent(<<"a">>), DeltaEvent(<<"b", "c">>),
                   CompletedEvent(1) >>
    /\ outcome.value = <<"a", "b", "c">>

\* A stream that opens a code-interpreter call, supplies its arguments,
\* completes it and then completes the turn.
OneToolCall(i) ==
    << AddedEvent("code_interpreter_call"), ArgumentsEvent,
       OtherEvent(ItemDone), CompletedEvent(i) >>

\* What a stream makes _stream_response report, in arrival order: each
\* text delta, and one notice for each code-interpreter call it opens.
RECURSIVE ReportOf(_)
ReportOf(evs) ==
    IF evs = <<>> THEN <<>>
    ELSE ReportOf(SubSeq(evs, 1, Len(evs) - 1))
            \o (IF Last(evs).type = TextDelta THEN << Last(evs).delta >>
                ELSE IF Last(evs) = AddedEvent("code_interpreter_call")
                THEN << RunningAnalysis >>
                ELSE <<>>)

Pending(evs, k) ==
    \E j \in 1..(k - 1) :
        /\ evs[j] = AddedEvent("code_interpreter_call")
        /\ \A m \in (j + 1)..(k - 1) : evs[m].type # ItemDone

C9_InvokeLocalRefusals ==
    [][(toolCalls' = toolCalls + 1 /\ toolOutcome'.op = "invokeLocal") =>
        /\ ~Registered(toolOutcome'.name) =>
                /\ toolOutcome'.error = "UnknownToolError"
                /\ executed' = executed
        /\ (Registered(toolOutcome'.name)
                /\ KindOf(toolOutcome'.name) = "REMOTE") =>
                /\ toolOutcome'.error = "NotLocalError"
                /\ executed' = executed]_vars

\* invokeLocal has just refused a REMOTE tool, in a registry that also
\* holds a LOCAL tool whose handler has run.
C9_Witness ==
    /\ toolOutcome = ToolOutcome("invokeLocal", "web_search", "NotLocalError")
    /\ Registered("web_search") /\ KindOf("web_search") = "REMOTE"
    /\ executed = << "calculate" >>

\* C10: the names of a registry are unique after any sequence of register
\* calls, and a register call that names a tool already present fails with
\* DuplicateToolError and leaves the registry as it was.
C10_UniqueToolNames ==
    /\ [](\A j, k \in 1..Len(registry) :
            registry[j].name = registry[k].name => j = k)
    /\ [][(toolCalls' = toolCalls + 1 /\ toolOutcome'.op = "register"
                /\ Registered(toolOutcome'.name)) =>
            /\ toolOutcome'.error = "DuplicateToolError"
            /\ registry' = registry]_vars

\* A second registration of a name has just been refused.
C10_Witness ==
    /\ toolOutcome = ToolOutcome("register", "calculate", "DuplicateToolError")
    /\ Len(registry) = 2
    /\ Registered("calculate")

\* C11: a run makes at most MaxDepth local-tool continuation rounds; a
\* service that asks for a local tool once more after that does not get
\* it, and ToolLoopExceededError is the error of a failed run that made
\* all the rounds; and every run in flight ends, completed or failed,
\* whatever the service asks for and whether or not handlers fail.
C11_ToolLoopBounded ==
    /\ [](rounds <= MaxDepth)
    /\ [][(runState = "STREAMING" /\ rounds = MaxDepth) =>
            (runState' # "AWAITING_LOCAL_TOOL" /\ rounds' = rounds)]_vars
    /\ [](runError = "ToolLoopExceededError" =>
            (runState = "FAILED" /\ rounds = MaxDepth))
    /\ (runState = "STREAMING") ~> (runState \in {"COMPLETED", "FAILED"})

\* The service asked for a local tool after every round up to the bound
\* and once more, with handlers that returned each time.
C11_Witness ==
    /\ runState = "FAILED"
    /\ runError = "ToolLoopExceededError"
    /\ Len(fedBack) = MaxDepth
    /\ \A k \in 1..Len(fedBack) :
            fedBack[k].output = "expression = result"

\* The strings a failed handler call is fed back as: what the handler made
\* of its own fault, or what the loop made of the handler's error.
FaultTexts ==
    {"Unknown timezone", "Error calculating expression", ToolErrorText}

\* C15: when the handler of a registered LOCAL tool is invoked and a fault
\* occurs inside it, whatever the tool and the fault, the run is not
\* aborted: it goes back to streaming with one more output fed back to
\* the service, a string that reports the fault; and no run ever fails
\* with ToolExecutionError.
C15_HandlerFaultFedBack ==
    /\ [][(/\ runState = "AWAITING_LOCAL_TOOL"
            /\ toolCalls' = toolCalls + 1
            /\ Registered(pendingCall)
            /\ KindOf(pendingCall) = "LOCAL"
            /\ lastFault' # "none") =>
                /\ runState' = "STREAMING"
                /\ runError' = "none"
                /\ Len(fedBack') = Len(fedBack) + 1
                /\ Last(fedBack').output \in FaultTexts]_vars
    /\ [](runError # "ToolExecutionError")

\* A run completed after two handler faults: one that calculate caught
\* itself and one that create_reminder let through.
C15_Witness ==
    /\ runState = "COMPLETED"
    /\ Len(fedBack) = 2
    /\ fedBack[1].output = "Error calculating expression"
    /\ fedBack[2].output = ToolErrorText
    /\ executed = << "calculate", "create_reminder" >>
    /\ toolOutcome.error = "ToolExecutionError"

\* C12: a run issued while another run on the same conversation is in
\* flight fails at once with ConcurrentTurnError: it sends no request, it
\* ends in that error, and neither the transcript nor the last-turn
\* identifier ever holds the id of a response to it.
C12_ConcurrentRunRefused ==
    /\ midFlight = {}
    /\ outcome2 # NoOutcome => outcome2 = Raise("ConcurrentTurnError")
    /\ \A i \in midFlight :
            /\ conversation_id # i
            /\ \A k \in 1..Len(conversation_history) :
                    conversation_history[k].response_id # i

\* C13: when the last turn of a conversation was cancelled while its
\* stream was being consumed, no turn is recorded for it (the transcript
\* has no entry for its response) and the last-turn identifier is the one
\* the run's request was built with.
C13_CancelLeavesState ==
    pc = "idle" =>
        \A c \in Clients :
            (turns[c] # <<>> /\ Last(turns[c]).end = "cancelled") =>
                /\ StoredId(c) = LastRequestOf(c, requests).previous_response_id
                /\ \A k \in 1..Len(conversation_history) :
                        conversation_history[k].response_id
                            # Last(turns[c]).id

\* C14: when the last call sent a request and ended raising (the request
\* failed, the response carried no text, or the stream raised), the
\* conversation is as it was before the call: the last-turn identifier is
\* the one the request was built with, not the id of the response whose
\* result the caller did not get, and the transcript has no entry for
\* that response.
C14_AbortedRunKeepsState ==
    (/\ pc = "idle"
     /\ requests # <<>>
     /\ outcome.kind = "raise"
     /\ outcome.error # "ValueError") =>
        /\ StoredId(Last(requests).client)
                = Last(requests).previous_response_id
        /\ \A k \in 1..Len(conversation_history) :
                conversation_history[k].response_id # Last(requests).id

\* The operations that return a list.
ListOps == {"read_emails", "list_events"}

\* A one-element list holding an 'error' entry.
IsErrorList(v) == Len(v) = 1 /\ "error" \in DOMAIN v[1]

\* The value an operation returned is its error value.
IsError(name, v) ==
    IF name \in ListOps THEN IsErrorList(v) ELSE ~v.success

\* The remote calls (the authentication included) a successful operation
\* has made.
CallsOf(name, v) ==
    IF name = "read_emails" THEN 2 + Len(v)
    ELSE IF name = "update_event" THEN 3
    ELSE 2

\* C16: every call of a mail or calendar operation returns (none
\* raises); the value is the operation's error value whenever a remote
\* call raised or a reply could not be read; a list operation returns
\* either the one-element error list or a list without error entries;
\* and a success value is returned only when the operation made all its
\* remote calls and none of them raised.
C16_ToolsReturnErrors ==
    opName # "none" =>
        /\ opOutcome.kind = "return"
        /\ opName \in ListOps =>
                \/ IsErrorList(opOutcome.value)
                \/ \A k \in 1..Len(opOutcome.value) :
                        "error" \notin DOMAIN opOutcome.value[k]
        /\ (\E k \in 1..Len(opLog) : Broke(opLog[k])) =>
                IsError(opName, opOutcome.value)
        /\ ~IsError(opName, opOutcome.value) =>
                /\ \A k \in 1..Len(opLog) : opLog[k].reply # "fails"
                /\ Len(opLog) = CallsOf(opName, opOutcome.value)

\* read_emails listed two messages, fetched the first and failed on the
\* second: the error list is returned, the first message is dropped.
C16_Witness ==
    /\ opName = "read_emails"
    /\ opOutcome = Return(ErrorList)
    /\ Len(opLog) = 4
    /\ opLog[3].reply = "ok"
    /\ opLog[4] = Call("messages.get", "fails", TRUE)

\* The turns of a log that search or search_streaming saved: those whose
\* call returned.
SavedTurns(ts) ==
    LET Returned(t) == t.end \in {"ok", "no_completion"}
    IN  SelectSeq(ts, Returned)

\* C17: with the turns of the two sessions interleaved in any order,
\* between calls each session's data is what its own turns make it: the
\* advisor's last-turn identifier is the last id reported to the advisor,
\* the PDF assistant's transcript has one entry per saved turn of the PDF
\* assistant, with that turn's id; and every request carries null or the
\* id of an earlier response of the same session.
C17_SessionsIndependent ==
    /\ pc = "idle" =>
            /\ conversation_id = LastReportedId(turns["adv"])
            /\ Len(conversation_history) = Len(SavedTurns(turns["pdf"]))
            /\ \A k \in 1..Len(conversation_history) :
                    conversation_history[k].response_id
                        = SavedTurns(turns["pdf"])[k].reported
    /\ \A k \in 1..Len(requests) :
            \/ requests[k].previous_response_id = None
            \/ \E j \in 1..(k - 1) :
                    /\ requests[j].client = requests[k].client
                    /\ requests[j].id = requests[k].previous_response_id

\* A turn of the advisor between two turns of the PDF assistant, all
\* successful, the second turn of the PDF assistant chained to the first.
C17_Witness ==
    /\ pc = "idle"
    /\ Len(requests) = 3
    /\ requests[1].client = "pdf"
    /\ requests[2].client = "adv"
    /\ requests[3].client = "pdf"
    /\ requests[3].previous_response_id = 1
    /\ AllOk(turns["pdf"]) /\ AllOk(turns["adv"])
    /\ conversation_id = 2

\* The position of the first completion event of a stream that has one.
FirstCompleted(evs) ==
    CHOOSE k \in 1..Len(evs) :
        /\ evs[k].type = Completed
        /\ \A j \in 1..(k - 1) : evs[j].type # Completed

\* C18: when a stream that ran to its end held a completion event, the
\* final text is the text of the deltas before the first completion event
\* and the turn id is that event's id: what came after it changed
\* neither.
C18_CompletionEndsAggregation ==
    (StreamEnded /\ HasCompleted(events)) =>
        /\ FinalText = TextOf(SubSeq(events, 1, FirstCompleted(events)))
        /\ TurnId = events[FirstCompleted(events)].id

\* The last call was a streamed one and the iteration of its stream raised.
StreamRaised ==
    /\ pc = "idle"
    /\ requests # <<>>
    /\ outcome.error # "ValueError"
    /\ Last(requests).stream
    /\ turns[Last(requests).client] # <<>>
    /\ Last(turns[Last(requests).client]).end = "stream_raised"

\* The text a call that raised leaves to its caller: the value that comes
\* with the outcome of the advisor, the entry the PDF assistant saved for
\* the response (none if it saved none).
PartialText ==
    IF Last(requests).client = "adv" THEN outcome.value
    ELSE IF \E k \in 1..Len(conversation_history) :
                conversation_history[k].response_id = Last(requests).id
    THEN Last(conversation_history).response
    ELSE <<>>

\* C19: a stream error ends the call as failed, and the result still
\* carries exactly the text of the deltas that arrived before the error.
C19_StreamErrorKeepsPartial ==
    StreamRaised =>
        /\ outcome.kind = "raise"
        /\ PartialText = TextOf(events)

\* What a turn with reply (t, i) leaves in the conversation of client c,
\* by whichever path it was made.
Delivered(c, t, i) ==
    IF c = "adv" THEN conversation_id = i
    ELSE /\ conversation_history # <<>>
         /\ Last(conversation_history) = Entry(query, t, i)
         /\ Len(conversation_history) = Len(SavedTurns(turns["pdf"]))

\* The last call sent a request and the request itself failed.
RequestFailed ==
    /\ pc = "idle"
    /\ requests # <<>>
    /\ outcome.error # "ValueError"
    /\ turns[Last(requests).client] # <<>>
    /\ Last(turns[Last(requests).client]).end = "create_raised"

\* The last call was a non-streamed one and it succeeded.
SyncSucceeded ==
    /\ pc = "idle"
    /\ requests # <<>>
    /\ outcome.error # "ValueError"
    /\ ~Last(requests).stream
    /\ turns[Last(requests).client] # <<>>
    /\ Last(turns[Last(requests).client]).end = "ok"

C21_NoWriteMidStream ==
    (pc \in {"search_streaming", "_stream_response"}) =>
        /\ StoredId(InFlight.client) = InFlight.previous_response_id
        /\ \A k \in 1..Len(conversation_history) :
                conversation_history[k].response_id # InFlight.id

\* Where the run of the advisor is, seen from its caller: inside the
\* stream loop, ended by a return, ended by an exception, or not started
\* (in this conversation).
AdvRunState ==
    IF pc = "_stream_response" THEN "STREAMING"
    ELSE IF turns["adv"] = <<>> THEN "IDLE"
    ELSE IF Last(turns["adv"]).end \in {"ok", "no_completion"}
    THEN "COMPLETED"
    ELSE "FAILED"

\* The step builds and sends the request of a run of the advisor.
AdvRunStarts ==
    /\ Len(requests') = Len(requests) + 1
    /\ Last(requests').client = "adv"

\* C22 as claimed: a run of the advisor fails only after a stream error
\* or a transport fault (the advisor has no tool loop to exceed): a call
\* of get_investment_suggestion that raised, raised the error of the
\* request or of the stream.
C22_FailedOnlyAfterStreamFault ==
    (/\ pc = "idle"
     /\ requests # <<>>
     /\ Last(requests).client = "adv"
     /\ outcome.kind = "raise"
     /\ outcome.error # "ValueError") =>
        outcome.error = "APIError"

\* C22 as amended: a run of the advisor starts between calls by building
\* and sending one request, is then inside the stream loop or (not
\* streamed) over at once, leaves the loop only to end, by a return or by
\* an exception, and ends once; it never waits for a local tool.  It ends
\* by an exception after a transport fault or a stream error, and also
\* after a non-streamed reply without text and after a cancellation in
\* the loop.
C22_AdvisorRunStates ==
    /\ [][AdvRunStarts =>
            /\ pc = "idle"
            /\ AdvRunState' \in {"STREAMING", "COMPLETED", "FAILED"}
            /\ (AdvRunState' = "STREAMING") = (Last(requests').stream
                                                /\ outcome' = NoOutcome)
            /\ Len(turns'["adv"]) =
                    IF AdvRunState' = "STREAMING" THEN Len(turns["adv"])
                    ELSE Len(turns["adv"]) + 1]_vars
    /\ [][(AdvRunState = "STREAMING") =>
            /\ requests' = requests
            /\ AdvRunState' \in {"STREAMING", "COMPLETED", "FAILED"}
            /\ (AdvRunState' = "STREAMING") =>
                    (turns' = turns /\ outcome' = outcome)
            /\ (AdvRunState' # "STREAMING") =>
                    /\ Len(turns'["adv"]) = Len(turns["adv"]) + 1
                    /\ Last(turns'["adv"]).id = Last(requests).id]_vars
    /\ [][(AdvRunState \in {"COMPLETED", "FAILED"} /\ ~AdvRunStarts) =>
            \/ AdvRunState' = AdvRunState /\ turns'["adv"] = turns["adv"]
            \/ AdvRunState' = "IDLE" /\ conversation_id' = None]_vars
    /\ [][(AdvRunState' = "COMPLETED" /\ turns'["adv"] # turns["adv"]) =>
            outcome'.kind = "return"]_vars
    /\ [][(AdvRunState' = "FAILED" /\ turns'["adv"] # turns["adv"]) =>
            \/ outcome' = Raise("APIError")
            \/ /\ outcome' = Raise("IndexError")
               /\ AdvRunStarts /\ ~Last(requests').stream
            \/ /\ outcome' = Raise("KeyboardInterrupt")
               /\ AdvRunState = "STREAMING"]_vars
    /\ [](runState = "IDLE" /\ executed = <<>>)

\* A streamed run of the advisor completed, and its next run, not
\* streamed, failed on a reply without text.
C22_Witness ==
    /\ AdvRunState = "FAILED"
    /\ outcome = Raise("IndexError")
    /\ Len(requests) = 2
    /\ requests[1].client = "adv" /\ requests[1].stream
    /\ turns["adv"][1].end = "ok"
    /\ ~requests[2].stream

\* The service paused on a tool that is registered as LOCAL.
PausedOnLocal ==
    /\ runState = "AWAITING_LOCAL_TOOL"
    /\ Registered(pendingCall)
    /\ KindOf(pendingCall) = "LOCAL"

\* C23: within one run, every pause on a LOCAL tool is left by one call of
\* the tool's handler, whose output goes back to the service under the id
\* of the paused call; no handler runs at any other step, so a paused call
\* is dispatched once and not twice, and a pause is always left, so it is
\* not dispatched zero times; the handler of a REMOTE tool never runs.
C23_ExactlyOnceDispatch ==
    /\ [][PausedOnLocal =>
            /\ toolCalls' = toolCalls + 1
            /\ executed' = Append(executed, pendingCall)
            /\ runState' = "STREAMING"
            /\ rounds' = rounds + 1
            /\ Len(fedBack') = Len(fedBack) + 1
            /\ SubSeq(fedBack', 1, Len(fedBack)) = fedBack
            /\ Last(fedBack').call_id = callId]_vars
    /\ [][(runState # "AWAITING_LOCAL_TOOL" /\ Len(registry) = Len(AgentTools))
            => (executed' = executed /\ toolCalls' = toolCalls
                /\ (fedBack' = fedBack \/ fedBack' = <<>>))]_vars
    /\ [](Len(fedBack) = rounds)
    /\ [](\A k \in 1..Len(executed) :
            \E t \in 1..Len(AgentTools) :
                AgentTools[t] = [name |-> executed[k], kind |-> "LOCAL"])
    /\ (runState = "AWAITING_LOCAL_TOOL") ~>
            (runState \in {"STREAMING", "FAILED"})

\* A run completed after the service paused on two local tools under two
\* call ids, and each output went back under its call's id.
C23_Witness ==
    /\ runState = "COMPLETED"
    /\ executed = << "calculate", "get_current_time" >>
    /\ Len(fedBack) = 2
    /\ fedBack[1] = ToolOutput("call_2", "expression = result")
    /\ fedBack[2] = ToolOutput("call_1", "Current time in tz")

\* The optional arguments of update_event and the field of the event each
\* one is assigned to.
EventFields ==
    { << "summary", "summary" >>, << "location", "location" >>,
      << "description", "description" >>, << "start_time", "start" >>,
      << "end_time", "end" >>, << "attendees", "attendees" >> }

\* C24: the event update_event sends back has, in every field whose
\* argument was omitted, the value that was fetched (a given time changes
\* the dateTime of start or end alone), and it is sent under the event id
\* and the calendar of the fetch, which are those of the call; in the
\* calendar only that event changes, and it becomes the event sent.
C24_UpdateKeepsOmitted ==
    /\ [](Len(apiCalls) = 2 =>
            /\ apiCalls[1].call = "events.get"
            /\ apiCalls[2].call = "events.update"
            /\ apiCalls[2].calendarId = apiCalls[1].calendarId
            /\ apiCalls[2].eventId = apiCalls[1].eventId
            /\ apiCalls[1].calendarId = updateArgs.calendar_id
            /\ apiCalls[1].eventId = updateArgs.event_id
            /\ apiCalls[2].body.id = apiCalls[1].body.id
            /\ \A f \in EventFields :
                    updateArgs[f[1]] = Omitted =>
                        apiCalls[2].body[f[2]] = apiCalls[1].body[f[2]]
            /\ apiCalls[2].body.start.timeZone
                    = apiCalls[1].body.start.timeZone
            /\ apiCalls[2].body.end.timeZone
                    = apiCalls[1].body.end.timeZone)
    /\ [][\A k \in CalendarIds \X EventIds :
            calendar'[k] # calendar[k] =>
                /\ k = << updateArgs'.calendar_id, updateArgs'.event_id >>
                /\ Len(apiCalls') = 2
                /\ apiCalls'[1].body = calendar[k]
                /\ calendar'[k] = apiCalls'[2].body]_vars

\* The call of the calendar test: a new summary and a new description
\* given, everything else omitted, and the event stored with the two
\* fields changed and the others as they were.
C24_Witness ==
    /\ opName = "update_event"
    /\ opOutcome.value = Saved("Event updated successfully!")
    /\ updateArgs = [NoArguments EXCEPT !.summary = << "retro" >>,
                                         !.description = << "moved" >>]
    /\ calendar[<< "primary", "e1" >>] =
            [StoredEvent("primary", "e1") EXCEPT !.summary = "retro",
                                                  !.description = "moved"]

\* All three attributes of the object are set.
FullyInitialized(o) ==
    objects[o].credentials /\ objects[o].gmail /\ objects[o].calendar

\* C25: every object that a GoogleServices() call has returned has its
\* credentials, its mail client and its calendar client set, whatever the
\* calls before it did.
C25_ReturnedInitialized ==
    \A t \in Threads : \A k \in 1..Len(constructed[t]) :
        constructed[t][k].kind = "return" =>
            FullyInitialized(constructed[t][k].value)

\* C26: _initialize has been started at most once, and the constructor
\* calls that returned, of whichever thread, returned the same object.
C26_SingletonUnderThreads ==
    /\ initRuns <= 1
    /\ \A t, u \in Threads :
        \A k \in 1..Len(constructed[t]) : \A j \in 1..Len(constructed[u]) :
            (constructed[t][k].kind = "return"
             /\ constructed[u][j].kind = "return") =>
                constructed[t][k].value = constructed[u][j].value

\* The methods of PDFSearchAssistant that need the vector store.
StoreMethods == {"upload_pdf", "search", "search_streaming"}

\* C27: a call of upload_pdf, search or search_streaming made while no
\* vector store has been created raises ValueError, sends no request and
\* uploads no file, and leaves the vector store id and the conversation
\* history as they were; so while there is no vector store, no request of
\* the assistant has been sent, no file uploaded and no turn saved.
C27_NoStoreNoCall ==
    /\ [][(/\ vector_store_id = None
            /\ Len(called') = Len(called) + 1
            /\ Last(called') \in StoreMethods) =>
                /\ outcome' = Raise("ValueError")
                /\ requests' = requests
                /\ nextId' = nextId
                /\ files' = files
                /\ vector_store_id' = None
                /\ conversation_history' = conversation_history
                /\ turns' = turns
                /\ pc' = "idle"]_vars
    /\ [](vector_store_id = None =>
            /\ files = <<>>
            /\ conversation_history = <<>>
            /\ \A k \in 1..Len(requests) : requests[k].client # "pdf")

\* Each of the three methods was called before any vector store was
\* created.
C27_Witness ==
    /\ vector_store_id = None
    /\ called = << "upload_pdf", "search", "search_streaming" >>
    /\ outcome = Raise("ValueError")
    /\ requests = <<>>
    /\ files = <<>>

\* C28: get_calendar_service never destroys stored credentials.  Whenever it
\* returns, token.json exists and holds the calendar scope; a token file
\* replaced by a fresh authorization is first kept as token.json.bak (also
\* when the authorization then fails); a token file holding valid calendar
\* credentials is not written, and neither is token.json.bak; and the only
\* other way token.json changes is by the refresh of its own credentials.
AuthCalled ==
    opsDone' = opsDone + 1 /\ opName' = "get_calendar_service"

C29_HistoryIdsNonNull ==
    /\ \A k \in 1..Len(conversation_history) :
            conversation_history[k].response_id # None
    /\ (pc = "idle" /\ conversation_history # <<>>) =>
            PreviousResponseId(conversation_history) \in 1..(nextId - 1)

\* C30: InvestmentAdvisor.conversation_id is at all times null or the id of
\* a response of this session that the service reported as completed: it
\* takes a new non-null value only in the step that consumes the
\* response.completed event of the stream in flight, or in which a
\* non-streamed request returns its response, and the value is that
\* response's id.  Only reset_conversation sets it to null.  Inside one
\* get_investment_suggestion call it changes at most once: during a stream
\* it is the value the request was built with or the id of the response in
\* flight, and once it is the latter it stays.
ReportedNow ==
    \/ /\ pc = "_stream_response"
       /\ Len(events') = Len(events) + 1
       /\ Last(events') = CompletedEvent(InFlight.id)
       /\ conversation_id' = InFlight.id
    \/ /\ pc = "idle"
       /\ pc' = "idle"
       /\ Len(requests') = Len(requests) + 1
       /\ Last(requests').client = "adv"
       /\ ~Last(requests').stream
       /\ outcome'.error # "APIError"
       /\ conversation_id' = Last(requests').id
       /\ Last(turns'["adv"]).reported = conversation_id'

TypeOK ==
    /\ vector_store_id \in {None, VectorStoreId}
    /\ conversation_id \in 0..MaxRequests
    /\ current_response_id \in 0..MaxRequests
    /\ pc \in {"idle", "search_streaming", "_stream_response"}
    /\ nextId \in 1..(MaxRequests + 1)
    /\ Len(requests) = nextId - 1
    /\ Len(events) <= MaxStreamEvents

====
